---- MODULE Spec2Model ----
(***************************************************************************)
(* Model of the stock-check service: the bounded job queue with its single *)
(* drain worker (enqueue / runWorker), the browser manager (ensureBrowser  *)
(* / restartBrowser) and the life cycle of one scraping job                *)
(* (scrapeProduct), as written in src/unnamed/part_001.                    *)
(*                                                                         *)
(* JavaScript runs every callback to its next await without interleaving,  *)
(* so one action is one such run: everything the code does synchronously   *)
(* (and in the microtasks that follow) between two awaits on real I/O or   *)
(* timers.  The program state is gathered in a record (Cur) so that the    *)
(* pieces of a run compose as functions from state to state.               *)
(***************************************************************************)
EXTENDS Integers, Sequences, FiniteSets, TLC

\* ---- bounds of the model ----
MaxJobs == 4                      \* number of POST /check-variants requests
Jobs == 1 .. MaxJobs
MaxLeaked == 1                    \* browser processes that may outlive a failed close
MaxLaunches == MaxLeaked + 3      \* names for launches / browser processes
Launches == 1 .. MaxLaunches

\* ---- configuration of the program (small values of the env settings) ----
MAX_QUEUE == 2
RESTART_EVERY_JOBS == 2
RETRY_AFTER_MS == 30000

VARIABLES
  listening,        \* app.listen callback has run
  exited,           \* process.exit has run
  exitScheduled,    \* a setTimeout(() => process.exit(1), 200) is pending
  queue,            \* const queue = []   (job ids, head first)
  workerRunning,    \* let workerRunning
  browser,          \* let browser        (0 = null, else the browser process)
  browserLaunching, \* let browserLaunching (0 = null, else the launch promise)
  jobsDone,         \* let jobsDone
  inflight,         \* chromium.launch calls that have not settled
  procs,            \* browser processes that are alive
  nextJob,          \* id of the next request
  status,           \* per request: "new" | "busy" | "queued" | "running" | "resolved" | "rejected"
  out,              \* per job: result or error it carries ("none" | "ok" | "nonfatal" | "fatal" | "launch")
  resp,             \* per request: HTTP status sent (0 = none yet)
  retryAfter,       \* per request: retry_after_ms of the 429 body (0 = none)
  pc,               \* position of every async activation (worker and job)
  wait,             \* launch promise an activation awaits (0 = none)
  witem,            \* per worker activation: the item it shifted (0 = none)
  page,             \* per job: has the job created its context / page ("none" | "context" | "page")
  startOrder,       \* history: job ids in the order jobFn was invoked
  prevRestarts,     \* history: number of preventive restarts begun
  gapRuns,          \* history: jobs settled since the last preventive restart began
  gapAtRestart,     \* history: gapRuns when the last preventive restart began
  sinceDone,        \* history: events since jobsDone last changed
  owed,             \* history: jobs that were pending when a job function threw
  torn,             \* per job: the close calls its finally has made (subset of {"page", "context"})
  trail,            \* history, per job: error caught by scrapeProduct's catch, restarts it began / saw end
  input,            \* the request and the page of the job looked at in detail (TheJob)
  job               \* the locals of that job's scrapeProduct call, from discovery to its return

vars == << listening, exited, exitScheduled, queue, workerRunning, browser,
           browserLaunching, jobsDone, inflight, procs, nextJob,
           status, out, resp, retryAfter, pc, wait, witem, page, startOrder,
           prevRestarts, gapRuns, gapAtRestart, sinceDone, owed, torn, trail,
           input, job >>

\* The operators below take the program state S0 and give the state after a
\* piece of code has run.  Each binds its argument once, as S, and Only
\* takes the single result out again.
Only(s) == CHOOSE x \in s : TRUE

\* activations: the runWorker() call made by the enqueue of job j, and job j's jobFn
W(j) == << "w", j >>
J(j) == << "j", j >>
Threads == { W(j) : j \in Jobs } \cup { J(j) : j \in Jobs }
IsWorker(t) == t[1] = "w"

Cur ==
  [ listening |-> listening, exited |-> exited, exitScheduled |-> exitScheduled,
    queue |-> queue, workerRunning |-> workerRunning, browser |-> browser,
    browserLaunching |-> browserLaunching, jobsDone |-> jobsDone,
    inflight |-> inflight, procs |-> procs,
    nextJob |-> nextJob, status |-> status, out |-> out, resp |-> resp,
    retryAfter |-> retryAfter, pc |-> pc, wait |-> wait, witem |-> witem,
    page |-> page, startOrder |-> startOrder, prevRestarts |-> prevRestarts,
    gapRuns |-> gapRuns, gapAtRestart |-> gapAtRestart, sinceDone |-> sinceDone,
    owed |-> owed, torn |-> torn, trail |-> trail, input |-> input, job |-> job,
    ret |-> 0 ]    \* ret: value returned by the last call (not program state)

Commit(R0) ==
  \E R \in { R0 } :
    /\ 0 \notin R.inflight
    /\ listening' = R.listening
    /\ exited' = R.exited
    /\ exitScheduled' = R.exitScheduled
    /\ queue' = R.queue
    /\ workerRunning' = R.workerRunning
    /\ browser' = R.browser
    /\ browserLaunching' = R.browserLaunching
    /\ jobsDone' = R.jobsDone
    /\ inflight' = R.inflight
    /\ procs' = R.procs
    /\ nextJob' = R.nextJob
    /\ status' = R.status
    /\ out' = R.out
    /\ resp' = R.resp
    /\ retryAfter' = R.retryAfter
    /\ pc' = R.pc
    /\ wait' = R.wait
    /\ witem' = R.witem
    /\ page' = R.page
    /\ startOrder' = R.startOrder
    /\ prevRestarts' = R.prevRestarts
    /\ gapRuns' = R.gapRuns
    /\ gapAtRestart' = R.gapAtRestart
    /\ sinceDone' = R.sinceDone
    /\ owed' = R.owed
    /\ torn' = R.torn
    /\ trail' = R.trail
    /\ input' = R.input
    /\ job' = R.job

NoEvents == [ restarts |-> 0, finished |-> 0, deq |-> 0,
              firstDeqRestarts |-> 0, firstDeqFinished |-> 0 ]

NoTrail == [ err |-> "none", begun |-> 0, finished |-> 0 ]

\* No job is looked at in detail: its driving is the single step DriveDone.
NoInput == [ controls |-> << >>, buyBtn |-> [ tag |-> "none", disabled |-> FALSE,
                                          cls |-> << >>, text |-> << >> ],
             url |-> << >>, title |-> << >>,
             max_combos |-> 0, max_ms |-> 0 ]
NoResult == [ combos |-> << >>, combosCount |-> 0, tallesCount |-> 0,
              coloresCount |-> 0, limited |-> FALSE, max_combos |-> 0,
              max_ms |-> 0, elapsed_ms |-> 0 ]
NoJob == [ pc |-> "none", now |-> 0, ticks |-> << >>, started |-> 0,
           deadline |-> 0, variations |-> << >>, ti |-> 0, ci |-> 0, pi |-> 0,
           combos |-> << >>, applied |-> << >>, emitted |-> << >>,
           readAt |-> << >>, lateSeen |-> FALSE, checks |-> 0,
           lateAt |-> [ found |-> FALSE, applied |-> 0, reads |-> 0 ],
           fallbackColor |-> << >>, targets |-> << >>,
           result |-> NoResult ]

Init ==
  /\ listening = FALSE
  /\ exited = FALSE
  /\ exitScheduled = FALSE
  /\ queue = << >>
  /\ workerRunning = FALSE
  /\ browser = 0
  /\ browserLaunching = 0
  /\ jobsDone = 0
  /\ inflight = {}
  /\ procs = {}
  /\ nextJob = 1
  /\ status = [ j \in Jobs |-> "new" ]
  /\ out = [ j \in Jobs |-> "none" ]
  /\ resp = [ j \in Jobs |-> 0 ]
  /\ retryAfter = [ j \in Jobs |-> 0 ]
  /\ pc = [ t \in Threads |-> IF IsWorker(t) THEN "none" ELSE "idle" ]
  /\ wait = [ t \in Threads |-> 0 ]
  /\ witem = [ j \in Jobs |-> 0 ]
  /\ page = [ j \in Jobs |-> "none" ]
  /\ startOrder = << >>
  /\ prevRestarts = 0
  /\ gapRuns = 0
  /\ gapAtRestart = 0
  /\ sinceDone = NoEvents
  /\ owed = {}
  /\ torn = [ j \in Jobs |-> {} ]
  /\ trail = [ j \in Jobs |-> NoTrail ]
  /\ input = NoInput
  /\ job = NoJob

\* ------------------------------------------------------------------------
\* Browser manager
\* ------------------------------------------------------------------------

\* Variant of isFatalPlaywrightError that matches every error message.
isFatalPlaywrightError_all(msg) == msg \in { "nonfatal", "fatal", "launch" }

\* isFatalPlaywrightError(msg): the message contains one of FATAL_PATTERNS.
\* "fatal" stands for a driving error whose message matches, "nonfatal" for
\* one that does not; the error of chromium.launch carries the API prefix
\* "browserType.launch", which is one of the patterns.
isFatalPlaywrightError(msg) == msg \in { "fatal", "launch" }

\* A name for the next chromium.launch call and the process it starts: the
\* least one not in use (0 when the model has run out of names).
newLaunch(S) ==
  LET free == Launches \ (S.inflight \cup S.procs \cup { S.browser })
  IN IF free = {} THEN 0 ELSE CHOOSE l \in free : \A m \in free : l <= m

\* Variant of ensureBrowser without `if (browserLaunching) return
\* browserLaunching`.
ensureBrowser_noMemo(S0) ==
  Only({
    IF S.browser # 0 THEN [ S EXCEPT !.ret = 0 ]
    ELSE [ S EXCEPT !.inflight = @ \cup { newLaunch(S) },
                    !.browserLaunching = newLaunch(S),
                    !.ret = newLaunch(S) ]
    : S \in { S0 } })

\* ensureBrowser(), synchronous part.  ret is the promise it returns: 0 when
\* it is already resolved with the live browser, else the launch to await
\* (the memoized one, or the one started here).
ensureBrowser(S0) ==
  Only({
    IF S.browser # 0 THEN [ S EXCEPT !.ret = 0 ]
    ELSE IF S.browserLaunching # 0 THEN [ S EXCEPT !.ret = S.browserLaunching ]
    ELSE [ S EXCEPT !.inflight = @ \cup { newLaunch(S) },
                    !.browserLaunching = newLaunch(S),
                    !.ret = newLaunch(S) ]
    : S \in { S0 } })

\* Variant of restartBrowser that starts the job count again from zero.
restartBrowser_resetJobs(S0, t) ==
  Only({
    IF S.browser # 0 THEN [ S EXCEPT !.jobsDone = 0, !.pc[t] = "close" ]
    ELSE [ S EXCEPT !.jobsDone = 0, !.browser = 0, !.pc[t] = "sleep" ]
    : S \in { S0 } })

\* restartBrowser(reason), synchronous part, run by activation t: with a
\* browser it calls browser.close() and awaits it; without one it goes
\* straight to `browser = null; await sleep(250)`.
restartBrowser(S0, t) ==
  Only({
    IF S.browser # 0 THEN [ S EXCEPT !.pc[t] = "close" ]
    ELSE [ S EXCEPT !.browser = 0, !.pc[t] = "sleep" ]
    : S \in { S0 } })

\* Variant of restartAfterClose without `browser = null`.
restartAfterClose_keepRef(S0, t, r) ==
  Only({
    [ S EXCEPT !.procs = IF r = "failed_alive" THEN @ ELSE @ \ { S.browser },
               !.pc[t] = "sleep" ]
    : S \in { S0 } })

\* restartBrowser after `await browser.close()` settled with outcome r:
\*   "closed"        close resolved, the process is gone
\*   "failed_dead"   close threw (swallowed), the process is gone
\*   "failed_alive"  close threw (swallowed), the process is still running
\* In every case `browser = null` and the backoff sleep starts.
restartAfterClose(S0, t, r) ==
  Only({
    [ S EXCEPT !.procs = IF r = "failed_alive" THEN @ ELSE @ \ { S.browser },
               !.browser = 0,
               !.pc[t] = "sleep" ]
    : S \in { S0 } })

\* ------------------------------------------------------------------------
\* scrapeProduct: life cycle of one job
\* ------------------------------------------------------------------------

\* scrapeProduct up to its first await: `const b = await ensureBrowser()`.
\* With a live browser the promise is already resolved and the job goes on
\* to `b.newContext(...)` in the same run.
scrapeProduct(S0, j) ==
  Only({
    LET T == ensureBrowser(S)
    IN IF T.ret = 0 THEN [ T EXCEPT !.pc[J(j)] = "newContext" ]
       ELSE [ T EXCEPT !.pc[J(j)] = "acquire", !.wait[J(j)] = T.ret ]
    : S \in { S0 } })

\* ------------------------------------------------------------------------
\* Queue and worker
\* ------------------------------------------------------------------------

\* Variant of shift that takes the newest item (queue.pop()).
shift_pop(S0, w) ==
  Only({
    LET item == S.queue[Len(S.queue)]
        first == S.sinceDone.deq = 0
        T == [ S EXCEPT !.queue = SubSeq(@, 1, Len(@) - 1),
                        !.witem[w] = item,
                        !.status[item] = "running",
                        !.pc[W(w)] = "job",
                        !.startOrder = Append(@, item),
                        !.sinceDone.deq = @ + 1,
                        !.sinceDone.firstDeqRestarts =
                            IF first THEN S.sinceDone.restarts ELSE @,
                        !.sinceDone.firstDeqFinished =
                            IF first THEN S.sinceDone.finished ELSE @ ]
    IN scrapeProduct(T, item)
    : S \in { S0 } })

\* `const item = queue.shift(); ... await item.jobFn()` in worker w.
shift(S0, w) ==
  Only({
    LET item == Head(S.queue)
        first == S.sinceDone.deq = 0
        T == [ S EXCEPT !.queue = Tail(@),
                        !.witem[w] = item,
                        !.status[item] = "running",
                        !.pc[W(w)] = "job",
                        !.startOrder = Append(@, item),
                        !.sinceDone.deq = @ + 1,
                        !.sinceDone.firstDeqRestarts =
                            IF first THEN S.sinceDone.restarts ELSE @,
                        !.sinceDone.firstDeqFinished =
                            IF first THEN S.sinceDone.finished ELSE @ ]
    IN scrapeProduct(T, item)
    : S \in { S0 } })

\* Variant of restartDue that tests `jobsDone > RESTART_EVERY_JOBS`.
restartDue_late(S) ==
  S.browser # 0 /\ S.jobsDone > RESTART_EVERY_JOBS
                /\ S.jobsDone % RESTART_EVERY_JOBS = 0

\* The preventive-restart test at the head of the loop.
restartDue(S) ==
  S.browser # 0 /\ S.jobsDone > 0 /\ S.jobsDone % RESTART_EVERY_JOBS = 0

\* One pass through `while (queue.length) { ... }` of worker w, up to its
\* next await; leaving the loop runs `finally { workerRunning = false }`.
drain(S0, w) ==
  Only({
    IF Len(S.queue) = 0
      THEN [ S EXCEPT !.workerRunning = FALSE, !.pc[W(w)] = "none",
                      !.witem[w] = 0 ]
    ELSE IF restartDue(S)
      THEN restartBrowser([ S EXCEPT !.prevRestarts = @ + 1,
                                     !.gapAtRestart = S.gapRuns,
                                     !.gapRuns = 0,
                                     !.sinceDone.restarts = @ + 1 ], W(w))
    ELSE shift(S, w)
    : S \in { S0 } })

\* Variant of runWorker without `if (workerRunning) return`.
runWorker_noGuard(S0, w) ==
  Only({
    drain([ S EXCEPT !.workerRunning = TRUE ], w)
    : S \in { S0 } })

\* runWorker(), called by the enqueue of job w.
runWorker(S0, w) ==
  Only({
    IF S.workerRunning THEN S
    ELSE drain([ S EXCEPT !.workerRunning = TRUE ], w)
    : S \in { S0 } })

\* Variant of enqueue that pushes the item before it tests the length.
enqueue_pushFirst(S0, j) ==
  Only({
    IF Len(S.queue) >= MAX_QUEUE
      THEN [ S EXCEPT !.queue = Append(@, j),
                      !.status[j] = "busy",
                      !.resp[j] = 429,
                      !.retryAfter[j] = RETRY_AFTER_MS ]
    ELSE runWorker([ S EXCEPT !.queue = Append(@, j),
                              !.status[j] = "queued" ], j)
    : S \in { S0 } })

\* Variant of enqueue that tests `queue.length > MAX_QUEUE`.
enqueue_gt(S0, j) ==
  Only({
    IF Len(S.queue) > MAX_QUEUE
      THEN [ S EXCEPT !.status[j] = "busy",
                      !.resp[j] = 429,
                      !.retryAfter[j] = RETRY_AFTER_MS ]
    ELSE runWorker([ S EXCEPT !.queue = Append(@, j),
                              !.status[j] = "queued" ], j)
    : S \in { S0 } })

\* enqueue(jobFn) as called by POST /check-variants for request j, together
\* with the handler's catch for the queue_full error.
enqueue(S0, j) ==
  Only({
    IF Len(S.queue) >= MAX_QUEUE
      THEN [ S EXCEPT !.status[j] = "busy",
                      !.resp[j] = 429,
                      !.retryAfter[j] = RETRY_AFTER_MS ]
    ELSE runWorker([ S EXCEPT !.queue = Append(@, j),
                              !.status[j] = "queued" ], j)
    : S \in { S0 } })

\* The worker whose item is job j.
WorkerOf(S, j) ==
  { w \in Jobs : S.pc[W(w)] = "job" /\ S.witem[w] = j }

\* Variant of settle in which a rejection leaves the worker's loop.
settle_break(S0, j) ==
  Only({
    LET ok == S.out[j] = "ok"
        T == [ S EXCEPT !.status[j] = IF ok THEN "resolved" ELSE "rejected",
                        !.resp[j] = IF ok THEN 200 ELSE 500,
                        !.exitScheduled =
                            @ \/ (~ok /\ isFatalPlaywrightError(S.out[j])),
                        !.pc[J(j)] = "settled",
                        !.page[j] = "none",
                        !.torn[j] = {},
                        !.gapRuns = @ + 1,
                        !.owed = IF ok THEN @
                                 ELSE @ \cup { S.queue[i] : i \in 1 .. Len(S.queue) } ]
        w == CHOOSE w \in WorkerOf(S, j) : TRUE
    IN IF WorkerOf(S, j) = {} THEN T
       ELSE IF ok THEN drain(T, w)
       ELSE [ T EXCEPT !.workerRunning = FALSE, !.pc[W(w)] = "none",
                       !.witem[w] = 0 ]
    : S \in { S0 } })

\* Variant of settle in which the worker puts a failed item back at the head
\* of the queue instead of rejecting it.
settle_retry(S0, j) ==
  Only({
    LET ok == S.out[j] = "ok"
        T == [ S EXCEPT !.status[j] = IF ok THEN "resolved" ELSE "queued",
                        !.resp[j] = IF ok THEN 200 ELSE 0,
                        !.queue = IF ok THEN @ ELSE << j >> \o @,
                        !.pc[J(j)] = IF ok THEN "settled" ELSE "idle",
                        !.page[j] = "none",
                        !.torn[j] = {},
                        !.gapRuns = @ + 1 ]
    IN IF WorkerOf(S, j) = {} THEN T
       ELSE drain(T, CHOOSE w \in WorkerOf(S, j) : TRUE)
    : S \in { S0 } })

\* Variant of settle whose POST handler has no fatal branch.
settle_noExit(S0, j) ==
  Only({
    LET ok == S.out[j] = "ok"
        T == [ S EXCEPT !.status[j] = IF ok THEN "resolved" ELSE "rejected",
                        !.resp[j] = IF ok THEN 200 ELSE 500,
                        !.pc[J(j)] = "settled",
                        !.page[j] = "none",
                        !.torn[j] = {},
                        !.gapRuns = @ + 1,
                        !.owed = IF ok THEN @
                                 ELSE @ \cup { S.queue[i] : i \in 1 .. Len(S.queue) } ]
    IN IF WorkerOf(S, j) = {} THEN T
       ELSE drain(T, CHOOSE w \in WorkerOf(S, j) : TRUE)
    : S \in { S0 } })

\* jobFn of job j settles: the worker resolves or rejects the item, the POST
\* handler answers (and schedules process.exit on a fatal message), and the
\* worker goes round its loop.
settle(S0, j) ==
  Only({
    LET ok == S.out[j] = "ok"
        T == [ S EXCEPT !.status[j] = IF ok THEN "resolved" ELSE "rejected",
                        !.resp[j] = IF ok THEN 200 ELSE 500,
                        !.exitScheduled =
                            @ \/ (~ok /\ isFatalPlaywrightError(S.out[j])),
                        !.pc[J(j)] = "settled",
                        !.page[j] = "none",
                        !.torn[j] = {},
                        !.gapRuns = @ + 1,
                        !.owed = IF ok THEN @
                                 ELSE @ \cup { S.queue[i] : i \in 1 .. Len(S.queue) } ]
    IN IF WorkerOf(S, j) = {} THEN T
       ELSE drain(T, CHOOSE w \in WorkerOf(S, j) : TRUE)
    : S \in { S0 } })

\* `try { if (context) await context.close(); } catch {}`, the last
\* statement of scrapeProduct: then its promise settles.
closeContext(S0, j) ==
  Only({
    IF S.page[j] \in { "context", "page" }
      THEN [ S EXCEPT !.torn[j] = @ \cup { "context" },
                      !.pc[J(j)] = "closeContext" ]
    ELSE settle(S, j)
    : S \in { S0 } })

\* Variant of finally that closes page and context at the end of the try
\* block only.
finally_inTry(S0, j) ==
  Only({
    IF S.out[j] # "ok" THEN settle(S, j)
    ELSE IF S.page[j] = "page"
      THEN [ S EXCEPT !.torn[j] = @ \cup { "page" }, !.pc[J(j)] = "closePage" ]
    ELSE closeContext(S, j)
    : S \in { S0 } })

\* `finally { try { if (page) await page.close(); } catch {} ... }` of
\* scrapeProduct: each close is called only if the object was created.
finally(S0, j) ==
  Only({
    IF S.page[j] = "page"
      THEN [ S EXCEPT !.torn[j] = @ \cup { "page" }, !.pc[J(j)] = "closePage" ]
    ELSE closeContext(S, j)
    : S \in { S0 } })

\* Variant of catch that rethrows without restarting the browser.
catch_noRestart(S0, j, r) ==
  Only({
    finally([ S EXCEPT !.out[j] = r, !.trail[j].err = r ], j)
    : S \in { S0 } })

\* `catch (err)` of scrapeProduct with a driving error of kind r.
catch(S0, j, r) ==
  Only({
    LET T == [ S EXCEPT !.out[j] = r, !.trail[j].err = r ]
    IN IF isFatalPlaywrightError(r)
         THEN restartBrowser([ T EXCEPT !.trail[j].begun = @ + 1 ], J(j))
       ELSE finally(T, j)
    : S \in { S0 } })

\* restartBrowser returned normally in activation t: the worker dequeues,
\* the job's catch goes on to `throw new Error(msg)`.
restartReturned(S0, t) ==
  Only({
    IF IsWorker(t)
      THEN shift([ S EXCEPT !.sinceDone.finished = @ + 1 ], t[2])
    ELSE finally([ S EXCEPT !.trail[t[2]].finished = @ + 1 ], t[2])
    : S \in { S0 } })

\* Variant of restartThrew without the worker's `finally`.
restartThrew_noFinally(S0, t) ==
  Only({
    IF IsWorker(t)
      THEN [ S EXCEPT !.pc[t] = "none",
                      !.witem[t[2]] = 0,
                      !.sinceDone.finished = @ + 1 ]
    ELSE finally([ S EXCEPT !.out[t[2]] = "launch",
                            !.trail[t[2]].finished = @ + 1 ], t[2])
    : S \in { S0 } })

\* restartBrowser threw (the relaunch failed) in activation t: the worker's
\* loop is left through `finally { workerRunning = false }` and runWorker
\* rejects ("worker crash"); in a job the launch error replaces the driving
\* error.
restartThrew(S0, t) ==
  Only({
    IF IsWorker(t)
      THEN [ S EXCEPT !.workerRunning = FALSE,
                      !.pc[t] = "none",
                      !.witem[t[2]] = 0,
                      !.sinceDone.finished = @ + 1 ]
    ELSE finally([ S EXCEPT !.out[t[2]] = "launch",
                            !.trail[t[2]].finished = @ + 1 ], t[2])
    : S \in { S0 } })

\* restartBrowser after the backoff sleep: `await ensureBrowser()`.
restartAfterSleep(S0, t) ==
  Only({
    LET T == ensureBrowser(S)
    IN IF T.ret = 0 THEN restartReturned(T, t)
       ELSE [ T EXCEPT !.pc[t] = "launch", !.wait[t] = T.ret ]
    : S \in { S0 } })

\* ------------------------------------------------------------------------
\* Actions: one per callback run
\* ------------------------------------------------------------------------

\* app.listen callback: `ensureBrowser().catch(() => {})` (warm-up).
Listen ==
  /\ ~listening /\ ~exited
  /\ Commit(ensureBrowser([ Cur EXCEPT !.listening = TRUE ]))

\* POST /check-variants with a non-empty product_url: enqueue and, when the
\* worker was idle, its first pass.
Submit ==
  /\ listening /\ ~exited
  /\ nextJob <= MaxJobs
  /\ Commit(enqueue([ Cur EXCEPT !.nextJob = @ + 1 ], nextJob))

\* `const b = await ensureBrowser()` of job j resumes.  A failed launch
\* throws before the try block: no catch, no finally.
acquireResumed(S0, j, ok) ==
  Only({
    IF ok THEN [ S EXCEPT !.pc[J(j)] = "newContext", !.wait[J(j)] = 0 ]
    ELSE settle([ S EXCEPT !.out[j] = "launch", !.wait[J(j)] = 0 ], j)
    : S \in { S0 } })

\* `await ensureBrowser()` of a restart resumes.
restartResumed(S0, t, ok) ==
  Only({
    IF ok THEN restartReturned([ S EXCEPT !.wait[t] = 0 ], t)
    ELSE restartThrew([ S EXCEPT !.wait[t] = 0 ], t)
    : S \in { S0 } })

\* The activations awaiting launch l.
Waiters(S, l) ==
  { t \in Threads : S.wait[t] = l /\ S.pc[t] \in { "acquire", "launch" } }

\* The continuations of every activation awaiting launch l (microtasks of
\* the same run).
RECURSIVE resumeWaiters(_, _, _)
resumeWaiters(S0, l, ok) ==
  Only({
    IF Waiters(S, l) = {} THEN S
    ELSE LET t == CHOOSE t \in Waiters(S, l) : TRUE
         IN resumeWaiters(IF S.pc[t] = "acquire"
                            THEN acquireResumed(S, t[2], ok)
                          ELSE restartResumed(S, t, ok), l, ok)
    : S \in { S0 } })

\* chromium.launch of call l settles; the async body of ensureBrowser goes
\* on: `browser = b` or the catch that schedules process.exit, then
\* `finally { browserLaunching = null }`; then whoever awaited it.
launched(S0, l, ok) ==
  Only({
    LET T == IF ok THEN [ S EXCEPT !.browser = l,
                                   !.procs = @ \cup { l },
                                   !.browserLaunching = 0 ]
             ELSE [ S EXCEPT !.exitScheduled = TRUE,
                             !.browserLaunching = 0 ]
        \* the name l stays taken while the continuations run, so that a
        \* launch they start is a different one
        R == resumeWaiters(T, l, ok)
    IN [ R EXCEPT !.inflight = @ \ { l } ]
    : S \in { S0 } })

LaunchDone(l, ok) ==
  /\ ~exited
  /\ l \in inflight
  /\ Commit(launched(Cur, l, ok))

\* `context = await b.newContext(...)` settles.
NewContextDone(j, r) ==
  /\ ~exited
  /\ pc[J(j)] = "newContext"
  /\ Commit(IF r = "ok"
              THEN [ Cur EXCEPT !.page[j] = "context", !.pc[J(j)] = "newPage" ]
            ELSE catch(Cur, j, r))

\* `page = await context.newPage()` settles.
NewPageDone(j, r) ==
  /\ ~exited
  /\ pc[J(j)] = "newPage"
  /\ Commit(IF r = "ok"
              THEN [ Cur EXCEPT !.page[j] = "page", !.pc[J(j)] = "drive" ]
            ELSE catch(Cur, j, r))

\* Navigation, discovery and the combination loop end: with a result
\* (`jobsDone++; return {...}` of the no-variations path, of the no-vars
\* path or of the main loop, all three inside the try block) or with an
\* error.
DriveDone(j, r) ==
  /\ ~exited
  /\ pc[J(j)] = "drive"
  /\ Commit(IF r = "ok"
              THEN finally([ Cur EXCEPT !.jobsDone = @ + 1,
                                        !.sinceDone = NoEvents,
                                        !.out[j] = "ok" ], j)
            ELSE catch(Cur, j, r))

\* `await page.close()` settles, with success or failure: `catch {}`
\* swallows the failure, and the finally goes on to the context.
ClosePageDone(j, ok) ==
  /\ ~exited
  /\ pc[J(j)] = "closePage"
  /\ Commit(closeContext(Cur, j))

\* `await context.close()` settles, with success or failure: `catch {}`
\* swallows the failure; the job's promise settles with what the try or
\* the catch block left.
CloseContextDone(j, ok) ==
  /\ ~exited
  /\ pc[J(j)] = "closeContext"
  /\ Commit(settle(Cur, j))

\* `await browser.close()` of a restart settles.
CloseDone(t, r) ==
  /\ ~exited
  /\ pc[t] = "close"
  /\ r = "failed_alive" => Cardinality(procs \ { browser }) < MaxLeaked
  /\ Commit(restartAfterClose(Cur, t, r))

\* `await sleep(250)` of a restart ends.  A process.exit timer (200 ms)
\* that is pending was set before this sleep began and fires first.
SleepDone(t) ==
  /\ ~exited /\ ~exitScheduled
  /\ pc[t] = "sleep"
  /\ Commit(restartAfterSleep(Cur, t))

\* The timer of `setTimeout(() => process.exit(1), 200)` fires.
Exit ==
  /\ exitScheduled /\ ~exited
  /\ exited' = TRUE
  /\ UNCHANGED << listening, exitScheduled, queue, workerRunning, browser,
                  browserLaunching, jobsDone, inflight, procs,
                  nextJob, status, out, resp, retryAfter, pc, wait, witem,
                  page, startOrder, prevRestarts, gapRuns, gapAtRestart,
                  sinceDone, owed, torn, trail, input, job >>

Outcomes == { "ok", "nonfatal", "fatal" }
CloseOutcomes == { "closed", "failed_dead", "failed_alive" }

Next ==
  \/ Listen
  \/ Submit
  \/ \E l \in Launches, ok \in BOOLEAN : LaunchDone(l, ok)
  \/ \E j \in Jobs, r \in Outcomes : NewContextDone(j, r)
  \/ \E j \in Jobs, r \in Outcomes : NewPageDone(j, r)
  \/ \E j \in Jobs, r \in Outcomes : DriveDone(j, r)
  \/ \E j \in Jobs, ok \in BOOLEAN : ClosePageDone(j, ok)
  \/ \E j \in Jobs, ok \in BOOLEAN : CloseContextDone(j, ok)
  \/ \E t \in Threads, r \in CloseOutcomes : CloseDone(t, r)
  \/ \E t \in Threads : SleepDone(t)
  \/ Exit

Spec == Init /\ [][Next]_vars

\* Every callback that is due runs: timers fire, and the browser answers
\* every launch, page operation and close (with a result or an error).
\* Requests arrive or not.
FairSpec ==
  /\ Spec
  /\ WF_vars(Listen)
  /\ WF_vars(\E l \in Launches, ok \in BOOLEAN : LaunchDone(l, ok))
  /\ WF_vars(\E j \in Jobs, r \in Outcomes : NewContextDone(j, r))
  /\ WF_vars(\E j \in Jobs, r \in Outcomes : NewPageDone(j, r))
  /\ WF_vars(\E j \in Jobs, r \in Outcomes : DriveDone(j, r))
  /\ WF_vars(\E j \in Jobs, ok \in BOOLEAN : ClosePageDone(j, ok))
  /\ WF_vars(\E j \in Jobs, ok \in BOOLEAN : CloseContextDone(j, ok))
  /\ WF_vars(\E t \in Threads, r \in CloseOutcomes : CloseDone(t, r))
  /\ WF_vars(\E t \in Threads : SleepDone(t))
  /\ WF_vars(Exit)

TypeOK ==
  /\ listening \in BOOLEAN /\ exited \in BOOLEAN /\ exitScheduled \in BOOLEAN
  /\ workerRunning \in BOOLEAN
  /\ browser \in 0 .. MaxLaunches /\ browserLaunching \in 0 .. MaxLaunches
  /\ jobsDone \in 0 .. MaxJobs
  /\ procs \subseteq Launches
  /\ \A j \in Jobs :
       status[j] \in { "new", "busy", "queued", "running", "resolved", "rejected" }

\* ------------------------------------------------------------------------
\* scrapeProduct in detail: from the discovered variations to the payload
\* ------------------------------------------------------------------------

\* ---- bounds of the job that is looked at in detail ----
MaxDims == 3                      \* variation groups on the page
MaxOpts == 2                      \* usable options of one group
MaxCombos == 5                    \* max_combos of the request: 0 .. MaxCombos
MaxMs == 1                        \* max_ms of the request: 1 .. MaxMs

\* The request whose job is looked at in detail.
TheJob == 1

\* isLikelySizeLabel on the option labels used on the pages: "S", "M", "L"
\* and "XL" match /\b(xxs|xs|s|m|l|xl|xxl|xxxl)\b/, the other labels
\* ("Elegir", "Rojo", "Azul", "Verde", "Negro", "Gris") match none of the
\* patterns.
SizeLabels == { "S", "M", "L", "XL" }
isLikelySizeLabel(label) == label \in SizeLabels

\* The names of the variation controls, in the order of their index, and
\* `parseInt((name.match(/\[(\d+)\]/) || [])[1] || "0", 10)` on them.
DimNames == << "variation[0]", "variation[1]", "variation[2]", "variation[10]" >>
nameIndex(name) ==
  CASE name = "variation[0]" -> 0
    [] name = "variation[1]" -> 1
    [] name = "variation[2]" -> 2
    [] name = "variation[10]" -> 10
    [] OTHER -> 0

\* The options of a control whose labels are ls, none disabled: an option's
\* value is its position in the control (0 stands for `value=""`).
enabledOptions(ls) ==
  [ i \in 1 .. Len(ls) |-> [ value |-> i, label |-> ls[i], disabled |-> FALSE ] ]

\* The pages of ScrapeSpec: selects in the order of the index in their
\* name, none of their options disabled or without value (a select may have
\* no option at all); the options of one select carry labels of one kind.
Labels == { "M", "Rojo" }
LabelSeqs == { [ i \in 1 .. n |-> l ] : n \in 0 .. MaxOpts, l \in Labels }
SortedPages ==
  UNION { { [ k \in 1 .. d |->
                [ name |-> DimNames[k], kind |-> "select",
                  options |-> enabledOptions(g[k]) ] ]
            : g \in [ 1 .. d -> LabelSeqs ] }
          : d \in 0 .. MaxDims }

\* Radios with the same value and label count once: the first is kept
\* (`seen`).
RECURSIVE uniqOptions(_)
uniqOptions(opts) ==
  IF Len(opts) = 0 THEN << >>
  ELSE LET x == opts[Len(opts)]
           front == uniqOptions(SubSeq(opts, 1, Len(opts) - 1))
       IN IF \E i \in 1 .. Len(front) :
               front[i].value = x.value /\ front[i].label = x.label
            THEN front
          ELSE Append(front, x)

\* Variant of groupOf that reads every option as enabled (`disabled: false`).
groupOf_allEnabled(el) ==
  [ name |-> el.name,
    kind |-> IF el.kind \in { "select", "radio" } THEN el.kind ELSE "",
    options |->
       LET opts == [ i \in 1 .. Len(el.options) |->
                       [ el.options[i] EXCEPT !.disabled = FALSE ] ]
       IN IF el.kind = "select"
            THEN SelectSeq(opts, LAMBDA o : o.value # 0)
          ELSE IF el.kind = "radio"
            THEN uniqOptions(SelectSeq(opts, LAMBDA o : o.value # 0))
          ELSE << >> ]

\* The group that the discovery makes of one control that is not hidden:
\* the options of a select or of radios with a value and not disabled, no
\* option for another element.
groupOf(el) ==
  [ name |-> el.name,
    kind |-> IF el.kind \in { "select", "radio" } THEN el.kind ELSE "",
    options |->
       IF el.kind = "select"
         THEN SelectSeq(el.options, LAMBDA o : o.value # 0 /\ ~o.disabled)
       ELSE IF el.kind = "radio"
         THEN uniqOptions(SelectSeq(el.options,
                                    LAMBDA o : o.value # 0 /\ ~o.disabled))
       ELSE << >> ]

\* `Object.values(groups).sort((a, b) => ia - ib)`: ascending in the index of
\* the name, stable.
RECURSIVE sortByIndex(_)
sortByIndex(groups) ==
  IF Len(groups) = 0 THEN << >>
  ELSE LET x == groups[Len(groups)]
           front == sortByIndex(SubSeq(groups, 1, Len(groups) - 1))
           k == Cardinality({ i \in 1 .. Len(front) :
                               nameIndex(front[i].name) <= nameIndex(x.name) })
       IN SubSeq(front, 1, k) \o << x >> \o SubSeq(front, k + 1, Len(front))

\* `groups[name] ??= {...}` over the elements in turn: one group per name,
\* at the place of the first element of that name; every later select or
\* radio of the name overwrites its kind and its options.
RECURSIVE groupsByName(_)
groupsByName(gs) ==
  IF Len(gs) = 0 THEN << >>
  ELSE LET front == groupsByName(SubSeq(gs, 1, Len(gs) - 1))
           x == gs[Len(gs)]
       IN IF \E i \in 1 .. Len(front) : front[i].name = x.name
            THEN [ i \in 1 .. Len(front) |->
                     IF front[i].name = x.name /\ x.kind # "" THEN x
                     ELSE front[i] ]
          ELSE Append(front, x)

\* Variant of discovery that returns the groups in the order of the page.
discovery_pageOrder(controls) ==
  LET els == SelectSeq(controls, LAMBDA el : el.kind # "hidden")
  IN groupsByName([ i \in 1 .. Len(els) |-> groupOf(els[i]) ])

\* What the discovery evaluate returns (`variations`) for the controls of
\* the page, given in the order they occur in the form: one group per name
\* of a control that is not hidden, sorted by the index in the name.
discovery(controls) ==
  LET els == SelectSeq(controls, LAMBDA el : el.kind # "hidden")
  IN sortByIndex(groupsByName([ i \in 1 .. Len(els) |-> groupOf(els[i]) ]))

\* setVariation(name, value): the place on the page of the element it acts
\* on, 0 when there is none: the first select of that name, else the first
\* radio of that name and value.
setVariation(controls, name, value) ==
  LET sels == { i \in 1 .. Len(controls) :
                  controls[i].kind = "select" /\ controls[i].name = name }
      radios == { i \in 1 .. Len(controls) :
                    /\ controls[i].kind = "radio" /\ controls[i].name = name
                    /\ \E o \in 1 .. Len(controls[i].options) :
                         controls[i].options[o].value = value }
      first(set) == CHOOSE i \in set : \A m \in set : i <= m
  IN IF sels # {} THEN first(sels)
     ELSE IF radios # {} THEN first(radios)
     ELSE 0

\* Texts of the page are sequences of characters.
Upper == << "A", "B", "C", "D", "E", "F", "G", "H", "I", "J", "K", "L", "M", "N",
           "O", "P", "Q", "R", "S", "T", "U", "V", "W", "X", "Y", "Z" >>
Lower == << "a", "b", "c", "d", "e", "f", "g", "h", "i", "j", "k", "l", "m", "n",
           "o", "p", "q", "r", "s", "t", "u", "v", "w", "x", "y", "z" >>
Digits == { "0", "1", "2", "3", "4", "5", "6", "7", "8", "9" }
Vowels == { "a", "e", "i", "o", "u" }
lower(c) ==
  IF \E i \in 1 .. Len(Upper) : Upper[i] = c
    THEN Lower[CHOOSE i \in 1 .. Len(Upper) : Upper[i] = c]
  ELSE c
toLowerCase(str) == [ i \in 1 .. Len(str) |-> lower(str[i]) ]
includes(str, sub) ==
  \E k \in 0 .. Len(str) - Len(sub) :
    \A i \in 1 .. Len(sub) : str[k + i] = sub[i]

\* What the purchase control of the page shows, whatever is selected.
\* The purchase control the three selectors of readAvailable find: none, or
\* an element with its tag ("input", "button", or "other" for an element
\* that is neither), its disabled property, its class attribute and its
\* text (the value of an input, the textContent of anything else).
AbsentBtn == [ tag |-> "none", disabled |-> FALSE, cls |-> << >>, text |-> << >> ]
EnabledBtn ==
  [ tag |-> "input", disabled |-> FALSE,
    cls |-> << "p", "r", "o", "d", "u", "c", "t", "-", "b", "u", "y", "-", "b", "t", "n" >>,
    text |-> << "C", "o", "m", "p", "r", "a", "r" >> ]
NoStockBtn ==
  [ tag |-> "input", disabled |-> TRUE,
    cls |-> << "p", "r", "o", "d", "u", "c", "t", "-", "b", "u", "y", "-", "b", "t", "n", " ", "n", "o", "s", "t", "o", "c", "k" >>,
    text |-> << "S", "i", "n", " ", "s", "t", "o", "c", "k" >> ]
BuyBtns == { AbsentBtn, EnabledBtn, NoStockBtn }

\* readAvailable(): null without a purchase control, else !noStock.
readAvailable(btn) ==
  IF btn.tag = "none" THEN "null"
  ELSE LET disabled == btn.tag \in { "input", "button" } /\ btn.disabled
           cls == toLowerCase(btn.cls)
           text == toLowerCase(btn.text)
           noStock == \/ disabled
                      \/ includes(cls, << "n", "o", "s", "t", "o", "c", "k" >>)
                      \/ includes(text, << "s", "i", "n", " ", "s", "t", "o", "c", "k" >>)
                      \/ includes(text, << "a", "g", "o", "t", "a", "d", "o" >>)
       IN IF noStock THEN "false" ELSE "true"

\* Variant of jobVars without `.filter((v) => v.options.length > 0)`.
jobVars_keepEmpty(variations) ==
  [ k \in 1 .. Len(variations) |->
      [ name |-> variations[k].name,
        options |-> SelectSeq(variations[k].options, LAMBDA o : ~o.disabled) ] ]

\* `const vars = variations.map(...).filter((v) => v.options.length > 0)`.
jobVars(variations) ==
  SelectSeq([ k \in 1 .. Len(variations) |->
                [ name |-> variations[k].name,
                  options |-> SelectSeq(variations[k].options,
                                        LAMBDA o : ~o.disabled) ] ],
            LAMBDA v : Len(v.options) > 0)

\* talleScoreForGroup(group): hits / opts.length, kept as the pair
\* << hits, opts.length >> (<< 0, 1 >> for the 0 of a group without options).
talleScoreForGroup(group) ==
  IF Len(group.options) = 0 THEN << 0, 1 >>
  ELSE << Cardinality({ i \in 1 .. Len(group.options) :
                         isLikelySizeLabel(group.options[i].label) }),
          Len(group.options) >>

\* a < b for two scores
ScoreLess(a, b) == a[1] * b[2] < b[1] * a[2]

\* `scored.sort((a, b) => b.score - a.score)`: descending, stable.
RECURSIVE sortByScore(_)
sortByScore(scored) ==
  IF Len(scored) = 0 THEN << >>
  ELSE LET x == scored[Len(scored)]
           front == sortByScore(SubSeq(scored, 1, Len(scored) - 1))
           k == Cardinality({ i \in 1 .. Len(front) :
                               ~ScoreLess(front[i].score, x.score) })
       IN SubSeq(front, 1, k) \o << x >> \o SubSeq(front, k + 1, Len(front))

\* Variant of tallePick without the fallback below 0.2.
tallePick_noThreshold(vs) ==
  sortByScore([ i \in 1 .. Len(vs) |->
                 [ idx |-> i - 1, v |-> vs[i],
                   score |-> talleScoreForGroup(vs[i]) ] ])[1]

\* Variant of tallePick that takes the first group, whatever the scores.
tallePick_first(vs) == [ idx |-> 0, v |-> vs[1], score |-> << 0, 1 >> ]

\* tallePick for a non-empty vars: the best-scored group, or the first group
\* when the best score is below 0.2.
tallePick(vs) ==
  LET scored == sortByScore([ i \in 1 .. Len(vs) |->
                               [ idx |-> i - 1, v |-> vs[i],
                                 score |-> talleScoreForGroup(vs[i]) ] ])
  IN IF 5 * scored[1].score[1] < scored[1].score[2]
       THEN [ idx |-> 0, v |-> vs[1], score |-> << 0, 1 >> ]
     ELSE scored[1]

talleVar(vs) == tallePick(vs).v
otherVars(vs) == SelectSeq(vs, LAMBDA x : x.name # talleVar(vs).name)

\* buildOtherCombos, innermost loop: the options of v from the i-th on are
\* appended to one partial assignment, until next holds max_combos entries.
RECURSIVE pushOptions(_, _, _, _, _)
pushOptions(next, partial, v, i, max_combos) ==
  IF i > Len(v.options) THEN next
  ELSE LET n2 == Append(next, Append(partial, [ varName |-> v.name,
                                                opt |-> v.options[i] ]))
       IN IF Len(n2) >= max_combos THEN n2
          ELSE pushOptions(n2, partial, v, i + 1, max_combos)

\* buildOtherCombos, middle loop: over the partial assignments of acc.
RECURSIVE pushPartials(_, _, _, _, _)
pushPartials(next, acc, p, v, max_combos) ==
  IF p > Len(acc) THEN next
  ELSE LET n2 == pushOptions(next, acc[p], v, 1, max_combos)
       IN IF Len(n2) >= max_combos THEN n2
          ELSE pushPartials(n2, acc, p + 1, v, max_combos)

\* buildOtherCombos, outer loop: over the groups of others from the k-th on.
RECURSIVE extendCombos(_, _, _, _)
extendCombos(acc, others, k, max_combos) ==
  IF k > Len(others) THEN acc
  ELSE LET a2 == pushPartials(<< >>, acc, 1, others[k], max_combos)
       IN IF Len(a2) >= max_combos THEN a2
          ELSE extendCombos(a2, others, k + 1, max_combos)

\* Variant of buildOtherCombos that combines the first of the other groups
\* only.
buildOtherCombos_firstOnly(others, max_combos) ==
  IF Len(others) = 0 THEN << << >> >>
  ELSE pushPartials(<< >>, << << >> >>, 1, others[1], max_combos)

\* Variant of buildOtherCombos whose loops stop when the count exceeds
\* max_combos (`>` for `>=`).
buildOtherCombos_capGt(others, max_combos) ==
  IF Len(others) = 0 THEN << << >> >>
  ELSE extendCombos(<< << >> >>, others, 1, max_combos + 1)

\* buildOtherCombos() for otherVars = others.
buildOtherCombos(others, max_combos) ==
  IF Len(others) = 0 THEN << << >> >>
  ELSE extendCombos(<< << >> >>, others, 1, max_combos)

\* ------------------------------------------------------------------------
\* Fallback colour label: strings are sequences of characters
\* ------------------------------------------------------------------------

\* str.indexOf(sub), counted from 0; -1 when sub does not occur.
indexOf(str, sub) ==
  LET ks == { k \in 0 .. Len(str) - Len(sub) :
                \A i \in 1 .. Len(sub) : str[k + i] = sub[i] }
  IN IF ks = {} THEN -1 ELSE CHOOSE k \in ks : \A m \in ks : k <= m

\* str.split(sep) for a non-empty sep.
RECURSIVE split(_, _)
split(str, sep) ==
  LET k == indexOf(str, sep)
  IN IF k = -1 THEN << str >>
     ELSE << SubSeq(str, 1, k) >>
            \o split(SubSeq(str, k + Len(sep) + 1, Len(str)), sep)

\* parts.join(sep).
RECURSIVE join(_, _)
join(parts, sep) ==
  IF Len(parts) = 0 THEN << >>
  ELSE IF Len(parts) = 1 THEN parts[1]
  ELSE parts[1] \o sep \o join(Tail(parts), sep)

\* The number of characters of str after position from that belong to set.
RECURSIVE run(_, _, _)
run(str, from, set) ==
  IF from < Len(str) /\ str[from + 1] \in set
    THEN 1 + run(str, from + 1, set)
  ELSE 0

\* str.trim() (the only white space of the model is the blank).
RECURSIVE trimEnd(_)
trimEnd(str) ==
  IF Len(str) > 0 /\ str[Len(str)] = " "
    THEN trimEnd(SubSeq(str, 1, Len(str) - 1))
  ELSE str
trim(str) == trimEnd(SubSeq(str, run(str, 0, { " " }) + 1, Len(str)))

\* str.replace(/\s+/g, " ").
RECURSIVE squeeze(_)
squeeze(str) ==
  IF Len(str) = 0 THEN << >>
  ELSE IF str[1] = " "
    THEN << " " >> \o squeeze(SubSeq(str, run(str, 0, { " " }) + 1, Len(str)))
  ELSE << str[1] >> \o squeeze(Tail(str))

\* normalizeText(s).
normalizeText(str) == trim(squeeze(str))

\* cleanColorText(s): `_` and `-` become blanks, then normalizeText.
cleanColorText(str) ==
  normalizeText([ i \in 1 .. Len(str) |->
                    IF str[i] \in { "_", "-" } THEN " " ELSE str[i] ])

\* parts.filter(Boolean) of strings.
nonEmpty(parts) == SelectSeq(parts, LAMBDA x : Len(x) > 0)

\* /^\d+$/.test(tok).
isNumber(tok) == Len(tok) > 0 /\ \A i \in 1 .. Len(tok) : tok[i] \in Digits

\* productSlugFromUrl(product_url).
productSlugFromUrl(product_url) ==
  LET halves == split(product_url, << "/", "p", "r", "o", "d", "u", "c", "t", "o", "s", "/" >>)
      after == IF Len(halves) >= 2 THEN split(halves[2], << "/" >>)[1] ELSE << >>
  IN trim(after)

\* Variant of looksLikeCodeToken without the test on the vowels.
looksLikeCodeToken_noVowels(tok) ==
  LET t == trim(toLowerCase(tok))
  IN /\ Len(t) \in 4 .. 6
     /\ \A i \in 1 .. Len(t) :
          t[i] \in Digits \/ \E k \in 1 .. Len(Lower) : Lower[k] = t[i]

\* looksLikeCodeToken(tok).
looksLikeCodeToken(tok) ==
  LET t == trim(toLowerCase(tok))
  IN /\ Len(t) \in 4 .. 6
     /\ \A i \in 1 .. Len(t) :
          t[i] \in Digits \/ \E k \in 1 .. Len(Lower) : Lower[k] = t[i]
     /\ Cardinality({ i \in 1 .. Len(t) : t[i] \in Vowels }) < 2

\* colorFromUrlSmart(product_url).
colorFromUrlSmart(product_url) ==
  LET slug == productSlugFromUrl(product_url)
      toks == nonEmpty(split(slug, << "-" >>))
      parts == [ k \in 1 .. Len(toks) |-> trim(toks[k]) ]
      i0 == IF Len(parts) > 0
               /\ toLowerCase(parts[1]) \in { << "a", "r", "t" >>, << "a", "r", "t", "." >> }
              THEN 1 ELSE 0
      i1 == IF i0 < Len(parts) /\ isNumber(parts[i0 + 1]) THEN i0 + 1 ELSE i0
      nums == { k \in 1 .. Len(parts) : isNumber(parts[k]) }
      i == IF i1 = 0 /\ nums # {}
             THEN CHOOSE k \in nums : \A m \in nums : k <= m
           ELSE i1
      colorParts == SubSeq(parts, i + 1, Len(parts))
      kept == IF Len(colorParts) > 0
                 /\ looksLikeCodeToken(colorParts[Len(colorParts)])
                THEN SubSeq(colorParts, 1, Len(colorParts) - 1)
              ELSE colorParts
  IN IF Len(slug) = 0 \/ Len(parts) = 0 \/ Len(kept) = 0 THEN << >>
     ELSE cleanColorText(join(kept, << " " >>))

\* t.match(/art\.?\s*\d+\s*(.*)$/i): the group (.*) of the first match,
\* << >> without a match.
artMatch(t) ==
  LET ends(k) ==
        LET dot == IF k + 3 < Len(t) /\ t[k + 4] = "." THEN k + 4 ELSE k + 3
            sp == dot + run(t, dot, { " " })
            num == sp + run(t, sp, Digits)
        IN IF num > sp THEN num + run(t, num, { " " }) ELSE -1
      ks == { k \in 0 .. Len(t) - 3 :
                /\ toLowerCase(SubSeq(t, k + 1, k + 3)) = << "a", "r", "t" >>
                /\ ends(k) # -1 }
  IN IF ks = {} THEN << >>
     ELSE SubSeq(t, ends(CHOOSE k \in ks : \A m \in ks : k <= m) + 1, Len(t))

\* colorFromTitleSmart(title).
colorFromTitleSmart(title) ==
  LET t == normalizeText(title)
      cut == split(t, << " ", "-", " " >>)
      partsDash == nonEmpty([ k \in 1 .. Len(cut) |-> trim(cut[k]) ])
  IN IF Len(t) = 0 THEN << >>
     ELSE IF Len(partsDash) >= 2
       THEN cleanColorText(join(Tail(partsDash), << " ", "-", " " >>))
     ELSE cleanColorText(artMatch(t))

\* Variant of fallbackColor that prefers the label of the URL.
fallbackColor_urlFirst(pageTitle, product_url) ==
  IF colorFromUrlSmart(product_url) # << >> THEN colorFromUrlSmart(product_url)
  ELSE colorFromTitleSmart(pageTitle)

\* `const fallbackColor = colorFromTitleSmart(pageTitle) ||
\* colorFromUrlSmart(product_url)`.
fallbackColor(pageTitle, product_url) ==
  IF colorFromTitleSmart(pageTitle) # << >> THEN colorFromTitleSmart(pageTitle)
  ELSE colorFromUrlSmart(product_url)

\* What the page title and the URL gave as fallbackColor in the jobs that
\* are looked at from the discovery on (<< >> when neither gives a label).
Malbec == << "m", "a", "l", "b", "e", "c" >>
SinColor == << "(", "s", "i", "n", " ", "c", "o", "l", "o", "r", ")" >>
FallbackColors == { << >>, Malbec }

\* `colorLabel || fallbackColor || "(sin color)"`, where colorLabel is the
\* labels of the parts joined with " | " (kept as the list of the labels;
\* text is the string that stands for a missing colorLabel).
orSinColor(labels, fallback) ==
  IF Len(labels) > 0 THEN [ labels |-> labels, text |-> << >> ]
  ELSE IF Len(fallback) > 0 THEN [ labels |-> << >>, text |-> fallback ]
  ELSE [ labels |-> << >>, text |-> SinColor ]

\* The locals of the job that stay fixed once the variations are known.
Vars(S) == jobVars(S.job.variations)
talles(S) == talleVar(Vars(S)).options
Others(S) == otherVars(Vars(S))
otherCombos(S) == buildOtherCombos(Others(S), S.input.max_combos)

\* The clock values that the nowMs() calls of one run of a callback may
\* return: at most NowReads calls (lines 579, 562, 605, 617), each at or
\* after the one before.  The job started at 0; the times up to the
\* deadline are all alike, so that a call returns the deadline (in time) or
\* the millisecond after it (late).
NowReads == 4
Ticks(from, max_ms) ==
  { tk \in [ 1 .. NowReads -> (IF from > max_ms THEN from ELSE max_ms) .. max_ms + 1 ] :
      \A i \in 1 .. NowReads - 1 : tk[i] <= tk[i + 1] }

\* nowMs(): the clock is read.
nowMs(S0) ==
  Only({
    [ S EXCEPT !.job.now = Head(S.job.ticks), !.job.ticks = Tail(@) ]
    : S \in { S0 } })

\* Variant of payload whose limited ignores the deadline.
payload_capOnly(S0) ==
  Only({
    LET limited == Len(S.job.combos) >= S.input.max_combos
        B == nowMs(S)
    IN finally([ B EXCEPT
         !.jobsDone = @ + 1, !.sinceDone = NoEvents, !.out[TheJob] = "ok",
         !.job.pc = "done", !.job.ticks = << >>,
         !.job.result =
            [ combos |-> S.job.combos,
              combosCount |-> Len(S.job.combos),
              tallesCount |-> Len(talles(S)),
              coloresCount |-> IF Len(Others(S)) = 0 THEN 0
                               ELSE Len(Others(S)[1].options),
              limited |-> limited,
              max_combos |-> S.input.max_combos,
              max_ms |-> S.input.max_ms,
              elapsed_ms |-> B.job.now - B.job.started ] ], TheJob)
    : S \in { S0 } })

\* Variant of payload whose limited tests `combos.length > max_combos`.
payload_capGt(S0) ==
  Only({
    LET capped == Len(S.job.combos) > S.input.max_combos
        A == IF capped THEN S ELSE nowMs(S)
        late == ~capped /\ A.job.now > A.job.deadline
        B == nowMs(A)
    IN finally([ B EXCEPT
         !.jobsDone = @ + 1, !.sinceDone = NoEvents, !.out[TheJob] = "ok",
         !.job.pc = "done", !.job.ticks = << >>,
         !.job.lateSeen = @ \/ late,
         !.job.result =
            [ combos |-> S.job.combos,
              combosCount |-> Len(S.job.combos),
              tallesCount |-> Len(talles(S)),
              coloresCount |-> IF Len(Others(S)) = 0 THEN 0
                               ELSE Len(Others(S)[1].options),
              limited |-> capped \/ late,
              max_combos |-> S.input.max_combos,
              max_ms |-> S.input.max_ms,
              elapsed_ms |-> B.job.now - B.job.started ] ], TheJob)
    : S \in { S0 } })

\* Variant of payload whose coloresCount is the number of primary options
\* when there is no other group.
payload_coloresTalles(S0) ==
  Only({
    LET capped == Len(S.job.combos) >= S.input.max_combos
        A == IF capped THEN S ELSE nowMs(S)
        late == ~capped /\ A.job.now > A.job.deadline
        B == nowMs(A)
    IN finally([ B EXCEPT
         !.jobsDone = @ + 1, !.sinceDone = NoEvents, !.out[TheJob] = "ok",
         !.job.pc = "done", !.job.ticks = << >>,
         !.job.lateSeen = @ \/ late,
         !.job.result =
            [ combos |-> S.job.combos,
              combosCount |-> Len(S.job.combos),
              tallesCount |-> Len(talles(S)),
              coloresCount |-> IF Len(Others(S)) = 0 THEN Len(talles(S))
                               ELSE Len(Others(S)[1].options),
              limited |-> capped \/ late,
              max_combos |-> S.input.max_combos,
              max_ms |-> S.input.max_ms,
              elapsed_ms |-> B.job.now - B.job.started ] ], TheJob)
    : S \in { S0 } })

\* The end of the main path, after the loop: `const limited = combos.length
\* >= max_combos || nowMs() > deadline; jobsDone++; return {...}` (the clock
\* is read for limited only if the cap was not reached, and again for
\* elapsed_ms), then the finally of scrapeProduct.
payload(S0) ==
  Only({
    LET capped == Len(S.job.combos) >= S.input.max_combos
        A == IF capped THEN S ELSE nowMs(S)
        late == ~capped /\ A.job.now > A.job.deadline
        B == nowMs(A)
    IN finally([ B EXCEPT
         !.jobsDone = @ + 1, !.sinceDone = NoEvents, !.out[TheJob] = "ok",
         !.job.pc = "done", !.job.ticks = << >>,
         !.job.lateSeen = @ \/ late,
         !.job.result =
            [ combos |-> S.job.combos,
              combosCount |-> Len(S.job.combos),
              tallesCount |-> Len(talles(S)),
              coloresCount |-> IF Len(Others(S)) = 0 THEN 0
                               ELSE Len(Others(S)[1].options),
              limited |-> capped \/ late,
              max_combos |-> S.input.max_combos,
              max_ms |-> S.input.max_ms,
              elapsed_ms |-> B.job.now - B.job.started ] ], TheJob)
    : S \in { S0 } })

\* The two returns without iteration (no variations, no vars), after their
\* `await readAvailable()` gave a: one combo, `jobsDone++; return {...,
\* limited: false, ...}`, then the finally of scrapeProduct.
singleCombo(S0, a) ==
  Only({
    LET combos == << [ talle |-> "(sin talle)",
                       color |-> orSinColor(<< >>, S.job.fallbackColor),
                       available |-> a = "true" ] >>
        B == nowMs(S)
    IN finally([ B EXCEPT
         !.jobsDone = @ + 1, !.sinceDone = NoEvents, !.out[TheJob] = "ok",
         !.job.pc = "done", !.job.ticks = << >>,
         !.job.combos = combos,
         !.job.emitted = << [ t |-> 0, parts |-> << >> ] >>,
         !.job.readAt = << Len(S.job.applied) >>,
         !.job.result =
            [ combos |-> combos,
              combosCount |-> Len(combos),
              tallesCount |-> 0,
              coloresCount |-> 0,
              limited |-> FALSE,
              max_combos |-> S.input.max_combos,
              max_ms |-> S.input.max_ms,
              elapsed_ms |-> B.job.now - B.job.started ] ], TheJob)
    : S \in { S0 } })

\* `if (nowMs() > deadline) break;` at the head of a loop found the
\* deadline exceeded (history: what had been applied and read by then).
foundLate(S0) ==
  Only({
    [ S EXCEPT !.job.lateSeen = TRUE,
               !.job.lateAt = IF @.found THEN @
                              ELSE [ found |-> TRUE,
                                     applied |-> Len(S.job.applied),
                                     reads |-> Len(S.job.readAt) ] ]
    : S \in { S0 } })

\* Head of `for (const t of talles)` for the ti-th option: the deadline
\* test, then `setVariation(talleVar.name, t.value)` is called.
enterTalle(S0, ti) ==
  Only({
    IF ti > Len(talles(S)) THEN payload(S)
    ELSE LET A == nowMs(S)
         IN IF A.job.now > A.job.deadline
              THEN payload(foundLate(A))
            ELSE [ A EXCEPT !.job.pc = "setTalle", !.job.ti = ti,
                            !.job.checks = @ + 1,
                            !.job.targets =
                               Append(@, setVariation(S.input.controls,
                                                      talleVar(Vars(S)).name,
                                                      talles(S)[ti].value)),
                            !.job.ci = 0, !.job.pi = 0,
                            !.job.applied =
                               Append(@, << talleVar(Vars(S)).name,
                                            talles(S)[ti].value >>) ]
    : S \in { S0 } })

\* Variant of leaveCombos that leaves the outer loop after the first primary
\* option.
leaveCombos_break(S0) == payload(S0)

\* After `for (const parts of otherCombos)`: `if (combos.length >=
\* max_combos) break;`, else the next talle.
leaveCombos(S0) ==
  Only({
    IF Len(S.job.combos) >= S.input.max_combos THEN payload(S)
    ELSE enterTalle(S, S.job.ti + 1)
    : S \in { S0 } })

\* Variant of applyPart that reads the availability without applying the
\* parts.
applyPart_skip(S0, pi) ==
  Only({ [ S EXCEPT !.job.pc = "read", !.job.pi = 0 ] : S \in { S0 } })

\* `for (const p of parts)` from the pi-th part on: setVariation is called
\* for it, or, after the last, readAvailable.
applyPart(S0, pi) ==
  Only({
    LET parts == otherCombos(S)[S.job.ci]
    IN IF pi > Len(parts) THEN [ S EXCEPT !.job.pc = "read", !.job.pi = 0 ]
       ELSE [ S EXCEPT !.job.pc = "setPart", !.job.pi = pi,
                       !.job.targets =
                          Append(@, setVariation(S.input.controls,
                                                 parts[pi].varName,
                                                 parts[pi].opt.value)),
                       !.job.applied =
                          Append(@, << parts[pi].varName, parts[pi].opt.value >>) ]
    : S \in { S0 } })

\* Variant of enterCombo without the deadline test.
enterCombo_unchecked(S0, ci) ==
  Only({
    IF ci > Len(otherCombos(S)) THEN leaveCombos(S)
    ELSE applyPart([ S EXCEPT !.job.ci = ci ], 1)
    : S \in { S0 } })

\* Head of `for (const parts of otherCombos)` for the ci-th assignment: the
\* deadline test, then its parts are applied.
enterCombo(S0, ci) ==
  Only({
    IF ci > Len(otherCombos(S)) THEN leaveCombos(S)
    ELSE LET A == nowMs(S)
         IN IF A.job.now > A.job.deadline
              THEN leaveCombos(foundLate(A))
            ELSE applyPart([ A EXCEPT !.job.ci = ci,
                                      !.job.checks = @ + 1 ], 1)
    : S \in { S0 } })

\* Variant of pushCombo with `available: available !== false`.
pushCombo_notFalse(S0, a) ==
  Only({
    LET t == talles(S)[S.job.ti]
        parts == IF Len(Others(S)) = 0 THEN << >>
                 ELSE otherCombos(S)[S.job.ci]
        T == [ S EXCEPT
                 !.job.combos =
                    Append(@, [ talle |-> t.label,
                                color |-> orSinColor(
                                   [ i \in 1 .. Len(parts) |-> parts[i].opt.label ],
                                   S.job.fallbackColor),
                                available |-> a # "false" ]),
                 !.job.emitted =
                    Append(@, [ t |-> t.value,
                                parts |-> [ i \in 1 .. Len(parts) |->
                                             << parts[i].varName,
                                                parts[i].opt.value >> ] ]),
                 !.job.readAt = Append(@, Len(S.job.applied)) ]
    IN IF Len(Others(S)) = 0
         THEN IF Len(T.job.combos) >= S.input.max_combos THEN payload(T)
              ELSE enterTalle(T, S.job.ti + 1)
       ELSE IF Len(T.job.combos) >= S.input.max_combos THEN leaveCombos(T)
            ELSE enterCombo(T, S.job.ci + 1)
    : S \in { S0 } })

\* The main path after `await readAvailable()` gave a: the combo is pushed,
\* then `if (combos.length >= max_combos) break;`.
pushCombo(S0, a) ==
  Only({
    LET t == talles(S)[S.job.ti]
        parts == IF Len(Others(S)) = 0 THEN << >>
                 ELSE otherCombos(S)[S.job.ci]
        T == [ S EXCEPT
                 !.job.combos =
                    Append(@, [ talle |-> t.label,
                                color |-> orSinColor(
                                   [ i \in 1 .. Len(parts) |-> parts[i].opt.label ],
                                   S.job.fallbackColor),
                                available |-> a = "true" ]),
                 !.job.emitted =
                    Append(@, [ t |-> t.value,
                                parts |-> [ i \in 1 .. Len(parts) |->
                                             << parts[i].varName,
                                                parts[i].opt.value >> ] ]),
                 !.job.readAt = Append(@, Len(S.job.applied)) ]
    IN IF Len(Others(S)) = 0
         THEN IF Len(T.job.combos) >= S.input.max_combos THEN payload(T)
              ELSE enterTalle(T, S.job.ti + 1)
       ELSE IF Len(T.job.combos) >= S.input.max_combos THEN leaveCombos(T)
            ELSE enterCombo(T, S.job.ci + 1)
    : S \in { S0 } })

\* ---- actions of the job looked at in detail: one per callback run ----

\* The discovery evaluate returns the variations: without variations or
\* without vars readAvailable is called at once, else the loop begins.
Discovered(tk) ==
  /\ job.pc = "discover"
  /\ Commit(LET S == [ Cur EXCEPT !.job.ticks = tk,
                                  !.job.variations = discovery(input.controls) ]
            IN IF Len(S.job.variations) = 0 \/ Len(Vars(S)) = 0
                 THEN [ S EXCEPT !.job.pc = "readOnly", !.job.ticks = << >> ]
               ELSE [ enterTalle(S, 1) EXCEPT !.job.ticks = << >> ])

\* `await setVariation(talleVar.name, t.value); await page.waitForTimeout(
\* UI_TICK_MS)` are over: readAvailable is called if there are no other
\* groups, else the assignments begin.
TalleApplied(tk) ==
  /\ job.pc = "setTalle"
  /\ Commit(LET S == [ Cur EXCEPT !.job.ticks = tk ]
            IN [ (IF Len(Others(S)) = 0 THEN [ S EXCEPT !.job.pc = "read" ]
                  ELSE enterCombo(S, 1)) EXCEPT !.job.ticks = << >> ])

\* `await setVariation(p.varName, p.opt.value); await page.waitForTimeout(
\* UI_TICK_MS)` of a part are over.
PartApplied ==
  /\ job.pc = "setPart"
  /\ Commit(applyPart(Cur, job.pi + 1))

\* `await readAvailable()` of the main path returns.
AvailableRead(tk) ==
  /\ job.pc = "read"
  /\ Commit([ pushCombo([ Cur EXCEPT !.job.ticks = tk ],
                        readAvailable(input.buyBtn))
              EXCEPT !.job.ticks = << >> ])

\* `await readAvailable()` of a path without iteration returns.
OnlyAvailableRead(tk) ==
  /\ job.pc = "readOnly"
  /\ Commit([ singleCombo([ Cur EXCEPT !.job.ticks = tk ],
                          readAvailable(input.buyBtn))
              EXCEPT !.job.ticks = << >> ])

\* The first request's job has created its page and awaits the discovery;
\* started = nowMs() was 0.
FirstJobDriving ==
  /\ listening = TRUE /\ exited = FALSE /\ exitScheduled = FALSE
  /\ queue = << >> /\ workerRunning = TRUE
  /\ browser = 1 /\ browserLaunching = 0 /\ jobsDone = 0
  /\ inflight = {} /\ procs = { 1 }
  /\ nextJob = TheJob + 1
  /\ status = [ j \in Jobs |-> IF j = TheJob THEN "running" ELSE "new" ]
  /\ out = [ j \in Jobs |-> "none" ]
  /\ resp = [ j \in Jobs |-> 0 ]
  /\ retryAfter = [ j \in Jobs |-> 0 ]
  /\ pc = [ t \in Threads |-> IF t = J(TheJob) THEN "drive"
                               ELSE IF t = W(TheJob) THEN "job"
                               ELSE IF IsWorker(t) THEN "none" ELSE "idle" ]
  /\ wait = [ t \in Threads |-> 0 ]
  /\ witem = [ j \in Jobs |-> IF j = TheJob THEN TheJob ELSE 0 ]
  /\ page = [ j \in Jobs |-> IF j = TheJob THEN "page" ELSE "none" ]
  /\ startOrder = << TheJob >>
  /\ prevRestarts = 0 /\ gapRuns = 0 /\ gapAtRestart = 0
  /\ sinceDone = [ NoEvents EXCEPT !.deq = 1 ]
  /\ owed = {}
  /\ torn = [ j \in Jobs |-> {} ]
  /\ trail = [ j \in Jobs |-> NoTrail ]

ScrapeInit ==
  /\ FirstJobDriving
  /\ input \in [ controls : SortedPages, buyBtn : BuyBtns,
                  url : { << >> }, title : { << >> },
                  max_combos : 0 .. MaxCombos, max_ms : 1 .. MaxMs ]
  /\ job \in { [ NoJob EXCEPT !.pc = "discover", !.deadline = input.max_ms,
                              !.fallbackColor = f ] : f \in FallbackColors }

ScrapeNext ==
  \/ \E tk \in Ticks(job.now, input.max_ms) : Discovered(tk)
  \/ \E tk \in Ticks(job.now, input.max_ms) : TalleApplied(tk)
  \/ PartApplied
  \/ \E tk \in Ticks(job.now, input.max_ms) : AvailableRead(tk)
  \/ \E tk \in Ticks(job.now, input.max_ms) : OnlyAvailableRead(tk)

ScrapeSpec == ScrapeInit /\ [][ScrapeNext]_vars

\* ---- the same job on pages as a shop serves them (PageSpec) ----

MaxControls == 2                  \* variation controls in the form
MaxPageCombos == 9                \* largest max_combos of the request

\* The controls a page is made of: a select of four sizes, a select of two
\* colours, a select of three sizes with the second disabled, a select
\* whose placeholder has no value and whose only other option is disabled,
\* radios of one size and four colours (the first radio twice), a select of
\* one size and five colours, and a hidden input.
Shapes ==
  { [ kind |-> "select", options |-> enabledOptions(<< "S", "M", "L", "XL" >>) ],
    [ kind |-> "select", options |-> enabledOptions(<< "Rojo", "Azul" >>) ],
    [ kind |-> "select",
      options |-> [ enabledOptions(<< "S", "M", "L" >>) EXCEPT ![2].disabled = TRUE ] ],
    [ kind |-> "select",
      options |-> << [ value |-> 0, label |-> "Elegir", disabled |-> FALSE ],
                     [ value |-> 1, label |-> "Rojo", disabled |-> TRUE ] >> ],
    [ kind |-> "radio",
      options |-> Append(enabledOptions(<< "M", "Rojo", "Azul", "Verde", "Negro" >>),
                         [ value |-> 1, label |-> "M", disabled |-> FALSE ]) ],
    [ kind |-> "select",
      options |-> enabledOptions(<< "M", "Rojo", "Azul", "Verde", "Negro", "Gris" >>) ],
    [ kind |-> "hidden", options |-> << >> ] }

\* The names a control of these pages may carry.
PageNames == { "variation[1]", "variation[2]", "variation[10]" }

\* The pages: up to MaxControls controls of different names, in any order.
Pages ==
  UNION { { [ k \in 1 .. d |->
                [ name |-> n[k], kind |-> sh[k].kind, options |-> sh[k].options ] ]
            : n \in { f \in [ 1 .. d -> PageNames ] :
                        \A i, j \in 1 .. d : i # j => f[i] # f[j] },
              sh \in [ 1 .. d -> Shapes ] }
          : d \in 0 .. MaxControls }

PageInit ==
  /\ FirstJobDriving
  /\ input \in [ controls : Pages, buyBtn : { EnabledBtn, NoStockBtn },
                  url : { << >> }, title : { << >> },
                  max_combos : { -1, 3, MaxPageCombos }, max_ms : { 1 } ]
  /\ job = [ NoJob EXCEPT !.pc = "discover", !.deadline = input.max_ms ]

PageSpec == PageInit /\ [][ScrapeNext]_vars

\* The purchase controls of ButtonSpec: none, or an input, a button or
\* another element (which has no disabled property), with one of three
\* class attributes and one of five texts.
BuyClass == << "p", "r", "o", "d", "u", "c", "t", "-", "b", "u", "y", "-", "b", "t", "n" >>
NoStockClass == << "b", "t", "n", " ", "N", "o", "S", "t", "o", "c", "k" >>
StockClass == << "j", "s", "-", "a", "d", "d", "t", "o", "c", "a", "r", "t", " ", "s", "t", "o", "c", "k" >>
Classes == { BuyClass, NoStockClass, StockClass }
Comprar == << "C", "o", "m", "p", "r", "a", "r" >>
SinStock == << "S", "I", "N", " ", "S", "T", "O", "C", "K" >>
Agotado == << "P", "r", "o", "d", "u", "c", "t", "o", " ", "A", "g", "o", "t", "a", "d", "o" >>
ConsultarStock == << "C", "o", "n", "s", "u", "l", "t", "a", "r", " ", "s", "t", "o", "c", "k" >>
Texts == { Comprar, SinStock, Agotado, ConsultarStock, << >> }
Buttons ==
  { AbsentBtn } \cup
  { b \in [ tag : { "input", "button", "other" }, disabled : BOOLEAN,
            cls : Classes, text : Texts ] :
      b.tag = "other" => ~b.disabled }

\* The pages of ButtonSpec: no control, a select of two sizes, and a select
\* of two sizes with a select of two colours.
ButtonPages ==
  { << >>,
    << [ name |-> DimNames[1], kind |-> "select",
         options |-> enabledOptions(<< "M", "L" >>) ] >>,
    << [ name |-> DimNames[1], kind |-> "select",
         options |-> enabledOptions(<< "M", "L" >>) ],
       [ name |-> DimNames[2], kind |-> "select",
         options |-> enabledOptions(<< "Rojo", "Azul" >>) ] >> }

ButtonInit ==
  /\ FirstJobDriving
  /\ input \in [ controls : ButtonPages, buyBtn : Buttons,
                  url : { << >> }, title : { << >> },
                  max_combos : { MaxCombos }, max_ms : { 1 } ]
  /\ job = [ NoJob EXCEPT !.pc = "discover", !.deadline = input.max_ms ]

ButtonSpec == ButtonInit /\ [][ScrapeNext]_vars

\* The action of LabelSpec that precedes the discovery: the evaluate that
\* reads the title returns, and fallbackColor is computed.
TitleRead ==
  /\ job.pc = "title"
  /\ Commit([ Cur EXCEPT !.job.fallbackColor =
                            fallbackColor(input.title, input.url),
                        !.job.pc = "discover" ])

\* The product URLs of LabelSpec: one per slug, and one without /productos/.
SlugMalbec ==
  << "a", "r", "t", "-", "4", "3", "1", "5", "-", "m", "a", "l", "b",
       "e", "c" >>
SlugLilaRosa ==
  << "a", "r", "t", "-", "4", "3", "1", "5", "-", "l", "i", "l", "a",
       "-", "r", "o", "s", "a", "-", "b", "p", "o", "f", "g" >>
SlugUpper ==
  << "A", "R", "T", "-", "4", "3", "1", "5", "-", "m", "a", "l", "b",
       "e", "c" >>
SlugNoArt ==
  << "4", "3", "1", "5", "-", "m", "a", "l", "b", "e", "c" >>
SlugNoNumber ==
  << "a", "r", "t", "-", "m", "a", "l", "b", "e", "c" >>
SlugNumberInside ==
  << "r", "e", "m", "e", "r", "a", "-", "3", "8", "-", "r", "o", "s",
       "a" >>
SlugOnlyCode ==
  << "a", "r", "t", "-", "4", "3", "1", "5", "-", "b", "p", "o", "f",
       "g" >>
SlugBare ==
  << "a", "r", "t", "-", "4", "3", "1", "5" >>
SlugWord ==
  << "m", "a", "l", "b", "e", "c" >>
SlugUnderscore ==
  << "a", "r", "t", "-", "4", "3", "1", "5", "-", "l", "i", "l", "a",
       "_", "r", "o", "s", "a" >>
SlugDoubleHyphen ==
  << "a", "r", "t", "-", "-", "4", "3", "1", "5", "-", "r", "o", "s",
       "a" >>
SlugNumberLast ==
  << "r", "e", "m", "e", "r", "a", "-", "r", "o", "s", "a", "-", "2",
       "0", "2", "4" >>
SlugArtDot ==
  << "a", "r", "t", ".", "-", "4", "3", "1", "5", "-", "g", "r", "i",
       "s", "-", "p", "e", "r", "l", "a" >>
Slugs ==
  { SlugMalbec, SlugLilaRosa, SlugUpper, SlugNoArt,
    SlugNoNumber, SlugNumberInside, SlugOnlyCode, SlugBare,
    SlugWord, SlugUnderscore, SlugDoubleHyphen, SlugNumberLast,
    SlugArtDot }
UrlHead ==
  << "h", "t", "t", "p", "s", ":", "/", "/", "t", ".", "a", "r", "/",
       "p", "r", "o", "d", "u", "c", "t", "o", "s", "/" >>
UrlElsewhere ==
  << "h", "t", "t", "p", "s", ":", "/", "/", "t", ".", "a", "r", "/",
       "p", "/", "a", "r", "t", "-", "4", "3", "1", "5", "-", "m", "a",
       "l", "b", "e", "c", "/" >>
UrlOf(slug) == UrlHead \o slug \o << "/" >>
Urls == { UrlOf(slug) : slug \in Slugs } \cup { UrlElsewhere }

\* The texts of the h1 of the page.
TitleDash ==
  << "A", "R", "T", ".", " ", "4", "3", "1", "5", " ", "-", " ", "L",
       "I", "L", "A", " ", "Y", " ", "R", "O", "S", "A" >>
TitleArt ==
  << "A", "r", "t", " ", "4", "3", "1", "5", " ", " ", "M", "a", "l",
       "b", "e", "c" >>
TitlePlain ==
  << "R", "e", "m", "e", "r", "a", " ", "l", "i", "s", "a" >>
TitleSmart ==
  << "S", "m", "a", "r", "t", " ", "2", " ", "r", "o", "j", "o", " ",
       "-", " " >>
Titles == { << >>, TitleDash, TitleArt, TitlePlain, TitleSmart }

\* The pages of DupSpec: up to MaxDupControls selects in the form, named
\* variation[0] or variation[1], several of them with the same name or
\* not: two sizes, three sizes, two colours, or a placeholder with three
\* disabled colours.
MaxDupControls == 3
DupShapes ==
  { enabledOptions(<< "S", "M" >>),
    enabledOptions(<< "S", "M", "L" >>),
    enabledOptions(<< "Rojo", "Azul" >>),
    << [ value |-> 0, label |-> "Elegir", disabled |-> FALSE ],
       [ value |-> 1, label |-> "Rojo", disabled |-> TRUE ],
       [ value |-> 2, label |-> "Azul", disabled |-> TRUE ],
       [ value |-> 3, label |-> "Verde", disabled |-> TRUE ] >> }
DupPages ==
  UNION { [ 1 .. d -> [ name : { DimNames[1], DimNames[2] },
                        kind : { "select" }, options : DupShapes ] ]
          : d \in 0 .. MaxDupControls }

DupInit ==
  /\ FirstJobDriving
  /\ input \in [ controls : DupPages, buyBtn : { EnabledBtn },
                  url : { << >> }, title : { << >> },
                  max_combos : { MaxPageCombos }, max_ms : { 1 } ]
  /\ job = [ NoJob EXCEPT !.pc = "discover", !.deadline = input.max_ms ]

DupSpec == DupInit /\ [][ScrapeNext]_vars

LabelInit ==
  /\ FirstJobDriving
  /\ input \in [ controls : ButtonPages, buyBtn : { EnabledBtn },
                  url : Urls, title : Titles,
                  max_combos : { MaxCombos }, max_ms : { 1 } ]
  /\ job = [ NoJob EXCEPT !.pc = "title", !.deadline = input.max_ms ]

LabelNext == TitleRead \/ ScrapeNext

LabelSpec == LabelInit /\ [][LabelNext]_vars

\* ------------------------------------------------------------------------
\* Properties
\* ------------------------------------------------------------------------

Accepted(j) == status[j] \in { "queued", "running", "resolved", "rejected" }
Settled(j) == status[j] \in { "resolved", "rejected" }
Unsettled == { j \in Jobs : status[j] \in { "queued", "running" } }

\* The request handled by a Submit step, and whether it was turned away.
Submitted == nextJob' = nextJob + 1
TurnedAway == Submitted /\ status'[nextJob] = "busy"

\* jobFn of job j has been invoked and has not settled.
Driving(j) ==
  pc[J(j)] \in { "acquire", "newContext", "newPage", "drive", "close",
                 "sleep", "launch", "closePage", "closeContext" }
ActiveWorkers == { w \in Jobs : pc[W(w)] # "none" }

\* C1 (as stated): the accepted jobs that have not settled, pending plus in
\* flight, never number more than MAX_QUEUE.
C1_UnsettledWithinCapacity == Cardinality(Unsettled) <= MAX_QUEUE

\* C1 (amended): the capacity bounds the pending jobs only.  The queue never
\* holds more than MAX_QUEUE jobs, pending plus in flight never exceeds
\* MAX_QUEUE + 1, and a submit is turned away with queue_full exactly when
\* MAX_QUEUE jobs are pending, whatever is in flight.
C1_PendingWithinCapacity ==
  [][ /\ Len(queue') <= MAX_QUEUE
      /\ Cardinality(Unsettled') <= MAX_QUEUE + 1
      /\ Submitted => (TurnedAway <=> Len(queue) >= MAX_QUEUE) ]_vars

C1_Witness ==
  /\ Cardinality(Unsettled) = MAX_QUEUE + 1
  /\ \E j \in Jobs : status[j] = "busy"

\* C2: at most one job is driving the Session at any time: no job function
\* is invoked while another has not settled.
C2_OneJobDriving ==
  /\ Cardinality({ j \in Jobs : Driving(j) }) <= 1
  /\ Cardinality({ j \in Jobs : status[j] = "running" }) <= 1
  /\ \A j \in Jobs : Driving(j) <=> status[j] = "running"

C2_Witness ==
  /\ \E j \in Jobs : Driving(j) /\ pc[J(j)] = "drive"
  /\ Len(queue) = MAX_QUEUE

\* C3: at most one runWorker loop is active at any time, workerRunning says
\* whether one is, and a submit accepted while none is active starts one.
C3_OneWorker ==
  [][ /\ Cardinality(ActiveWorkers') <= 1
      /\ workerRunning' <=> ActiveWorkers' # {}
      /\ (Submitted /\ ~TurnedAway /\ ActiveWorkers = {})
           => ActiveWorkers' = { nextJob } ]_vars

\* a worker started by a submit that found the queue non-empty and no worker
\* (the previous worker left its loop on a failed relaunch)
C3_Witness ==
  \E w \in Jobs : pc[W(w)] # "none" /\ w > 1 /\ witem[w] # 0 /\ witem[w] < w

\* C4: jobs are started in the order their submits were accepted, and a job
\* is started only when every job accepted before it has settled.
C4_Fifo ==
  /\ \A i, k \in 1 .. Len(startOrder) : i < k => startOrder[i] < startOrder[k]
  /\ \A a, b \in Jobs :
       (a < b /\ Accepted(a) /\ status[b] \in { "running", "resolved", "rejected" })
         => Settled(a)

C4_Witness ==
  /\ Len(startOrder) >= 3
  /\ \E j \in Jobs : status[j] = "running" /\ Len(queue) > 0

\* The step in which job j's promise is rejected touches no other promise
\* and leaves the worker active if jobs remain.
RejectionIsolated ==
  \A j \in Jobs :
    (status[j] = "running" /\ status'[j] = "rejected") =>
      /\ out'[j] # "ok" /\ resp'[j] = 500
      /\ \A k \in Jobs \ { j } :
           /\ Settled(k)' => status'[k] = status[k]
           /\ resp'[k] = resp[k] /\ out'[k] = out[k]
      /\ Len(queue) > 0 => (workerRunning' /\ ActiveWorkers' # {})

Started(k) == status[k] \in { "running", "resolved", "rejected" }

\* C5 (as stated): when a job function throws, only that job's promise is
\* rejected, with the error, the worker stays active, and every job still in
\* the queue is subsequently dequeued and run.
C5_FailureIsolated ==
  /\ [][RejectionIsolated]_vars
  /\ \A k \in Jobs : (k \in owed) ~> Started(k)

\* C5 (amended): when a job function throws, only that job's promise is
\* rejected, with the error, and the worker stays active while jobs remain;
\* every job still in the queue is subsequently dequeued and run unless
\* process termination has been scheduled in the meantime.
C5_FailureIsolatedUntilExit ==
  /\ [][RejectionIsolated]_vars
  /\ \A k \in Jobs : (k \in owed) ~> (Started(k) \/ exitScheduled)

\* a job that was second in the queue when an earlier job threw is running
C5_Witness ==
  \E j, k \in Jobs :
    /\ status[j] = "rejected" /\ out[j] = "nonfatal"
    /\ k \in owed /\ k > j + 1 /\ status[j + 1] = "resolved"
    /\ status[k] = "running"
    /\ ~exitScheduled

\* C6: a submit that is turned away for capacity changes nothing but its own
\* answer: queue, worker, Session and jobsDone are as before, its job
\* function is never invoked, and the answer is 429 with retry_after_ms.
C6_TurnedAwayNoEffect ==
  [][ /\ TurnedAway =>
           /\ Len(queue) >= MAX_QUEUE
           /\ resp'[nextJob] = 429 /\ retryAfter'[nextJob] = RETRY_AFTER_MS
           /\ UNCHANGED << queue, workerRunning, browser, browserLaunching,
                           jobsDone, inflight, procs, pc, wait, witem, page,
                           out, startOrder, exitScheduled >>
           /\ \A k \in Jobs \ { nextJob } :
                status'[k] = status[k] /\ resp'[k] = resp[k]
      /\ \A j \in Jobs :
           status'[j] = "busy" =>
             /\ pc'[J(j)] = "idle" /\ pc'[W(j)] = "none"
             /\ \A i \in 1 .. Len(startOrder') : startOrder'[i] # j
             /\ \A i \in 1 .. Len(queue') : queue'[i] # j ]_vars

\* a request turned away while a job drives and the queue is full
C6_Witness ==
  /\ \E j \in Jobs :
       status[j] = "busy" /\ resp[j] = 429 /\ retryAfter[j] = RETRY_AFTER_MS
  /\ \E k \in Jobs : pc[J(k)] = "drive"
  /\ Len(queue) = MAX_QUEUE

\* C7: at no time are two browser launches in flight: the one in flight is
\* the memoized one, and none is in flight while a browser is held.
C7_OneLaunch ==
  /\ Cardinality(inflight) <= 1
  /\ inflight = IF browserLaunching = 0 THEN {} ELSE { browserLaunching }
  /\ browser # 0 => inflight = {}

\* the first job awaits the launch that the warm-up started
C7_Witness ==
  /\ pc[J(1)] = "acquire" /\ wait[J(1)] \in inflight
  /\ procs = {} /\ ~exitScheduled /\ jobsDone = 0

\* C8: at most one browser process is alive at any time, also across
\* restarts in which browser.close() fails and the failure is swallowed.
C8_OneSession == Cardinality(procs) <= 1

\* C9: the first job dequeued after jobsDone has reached a positive multiple
\* of RESTART_EVERY_JOBS is preceded by exactly one preventive restart, and
\* that restart has finished when the job is dequeued.
C9_RestartBeforeNextJob ==
  /\ (jobsDone > 0 /\ jobsDone % RESTART_EVERY_JOBS = 0 /\ sinceDone.deq >= 1)
       => (sinceDone.firstDeqRestarts = 1 /\ sinceDone.firstDeqFinished = 1)
  /\ \A j \in Jobs :
       Driving(j) => \A w \in Jobs : pc[W(w)] \in { "none", "job" }

C9_Witness ==
  /\ jobsDone = RESTART_EVERY_JOBS
  /\ sinceDone.deq = 1 /\ sinceDone.firstDeqRestarts = 1
  /\ \E j \in Jobs : pc[J(j)] = "drive"

\* C10: between two consecutive preventive restarts at least
\* RESTART_EVERY_JOBS jobs have run to completion.
C10_RestartsSpaced ==
  prevRestarts >= 2 => gapAtRestart >= RESTART_EVERY_JOBS

\* C11 (as stated): a job rejected with a message that matches a fatal
\* signature has triggered exactly one restart, begun after its failure and
\* ended before the rejection.
C11_FatalRestartsOnce ==
  \A j \in Jobs :
    (status[j] = "rejected" /\ isFatalPlaywrightError(out[j]))
      => (trail[j].begun = 1 /\ trail[j].finished = 1)

\* C11 (amended): a job that fails while it drives the Session (inside the
\* try block) with a fatal message triggers exactly one restart: it begins in
\* the catch, the job stays unsettled while it runs, and it has ended (the
\* relaunch returned or threw) when the job's promise is rejected.  A job
\* whose failure is the launch error of its own `await ensureBrowser()`
\* triggers no restart.
C11_DrivingFatalRestartsOnce ==
  \A j \in Jobs :
    /\ trail[j].begun = (IF trail[j].err = "fatal" THEN 1 ELSE 0)
    /\ trail[j].finished <= trail[j].begun
    /\ (trail[j].begun = 1 /\ trail[j].finished = 0)
         => (status[j] = "running" /\ pc[J(j)] \in { "close", "sleep", "launch" })
    /\ pc[J(j)] \in { "close", "sleep", "launch" }
         => (trail[j].begun = 1 /\ trail[j].finished = 0)
    /\ (status[j] = "rejected" /\ trail[j].err = "fatal")
         => (trail[j].finished = 1 /\ out[j] \in { "fatal", "launch" })
    /\ (status[j] = "rejected" /\ trail[j].err = "none")
         => (out[j] = "launch" /\ trail[j].begun = 0)

\* a job rejected with its fatal driving error after the restart relaunched
C11_Witness ==
  \E j \in Jobs :
    /\ status[j] = "rejected" /\ out[j] = "fatal" /\ trail[j].err = "fatal"
    /\ trail[j].begun = 1 /\ trail[j].finished = 1
    /\ browser # 0 /\ procs = { browser }

\* C12: a job that fails with a message matching no fatal signature leaves
\* the Session untouched.  In every step from the failure to the rejection of
\* its promise, both included, the browser is the same live instance, no
\* launch is started, the job performs no restart and no process termination
\* is scheduled.  (The restart test at the head of the worker's loop is not
\* part of the job's failure; see C9 and C10.)
C12_NonFatalLeavesSession ==
  [][ \A j \in Jobs :
        (trail'[j].err = "nonfatal" /\ status[j] = "running") =>
          /\ browser # 0 /\ browser' = browser
          /\ procs' = procs /\ browser \in procs
          /\ inflight' = {} /\ browserLaunching' = 0
          /\ exitScheduled' = exitScheduled
          /\ trail'[j].begun = 0
          /\ pc'[J(j)] \in { "closePage", "closeContext", "settled" }
          /\ status'[j] = "rejected" => (resp'[j] = 500 /\ out'[j] = "nonfatal")
    ]_vars

\* a job rejected with a non-fatal error while the first browser launched is
\* still the live one and nothing has scheduled an exit
C12_Witness ==
  \E j \in Jobs :
    /\ status[j] = "rejected" /\ out[j] = "nonfatal"
    /\ browser = 1 /\ procs = { 1 } /\ prevRestarts = 0
    /\ ~exitScheduled /\ inflight = {}

\* A chromium.launch call fails in this step.
LaunchFailed == \E l \in inflight : l \notin inflight' /\ l \notin procs'

\* A job's promise is rejected in this step with a fatal-signature message.
FatalRejection ==
  \E j \in Jobs :
    status[j] = "running" /\ status'[j] = "rejected"
      /\ isFatalPlaywrightError(out'[j])

C14_TeardownOnEveryPath ==
  [][ \A j \in Jobs :
        /\ (status[j] = "running" /\ Settled(j)' /\ page[j] # "none") =>
              /\ pc[J(j)] = "closeContext"
              /\ torn[j] = (IF page[j] = "page" THEN { "page", "context" }
                             ELSE { "context" })
              /\ out[j] # "none" /\ out'[j] = out[j]
              /\ status'[j] = (IF out[j] = "ok" THEN "resolved" ELSE "rejected")
        /\ pc[J(j)] \in { "closePage", "closeContext" } =>
              /\ out'[j] = out[j] /\ jobsDone' = jobsDone
              /\ pc'[J(j)] \in { "closePage", "closeContext", "settled" }
              /\ pc[J(j)] = "closePage" =>
                    (torn[j] = { "page" } /\ pc'[J(j)] # "settled")
        /\ pc[J(j)] \in { "drive", "newPage" } => page[j] # "none"
    ]_vars

\* after a fatal driving error and its restart, the page's close has been
\* attempted and the context's close is awaited
C14_Witness ==
  \E j \in Jobs :
    /\ pc[J(j)] = "closeContext" /\ torn[j] = { "page", "context" }
    /\ out[j] = "fatal" /\ trail[j].finished = 1
    /\ status[j] = "running"

\* The number of times jobFn of job j has been invoked.
Invocations(j) ==
  Cardinality({ i \in 1 .. Len(startOrder) : startOrder[i] = j })

\* C15: there is no automatic retry.  The function of an accepted job is
\* invoked at most once; its promise settles in the step in which that one
\* invocation ends, resolved or rejected, and once settled it never changes:
\* a settled job is not queued, invoked or settled again.
C15_NoRetry ==
  /\ [](\A j \in Jobs :
          /\ Invocations(j) <= 1
          /\ Invocations(j) = (IF Started(j) THEN 1 ELSE 0)
          /\ Settled(j) <=> pc[J(j)] = "settled"
          /\ status[j] = "queued" <=> (\E i \in 1 .. Len(queue) : queue[i] = j)
          /\ status[j] = "resolved" => (out[j] = "ok" /\ resp[j] = 200)
          /\ status[j] = "rejected" => (out[j] \notin { "ok", "none" } /\ resp[j] = 500))
  /\ [][ \A j \in Jobs :
          /\ Settled(j) =>
                (status'[j] = status[j] /\ resp'[j] = resp[j] /\ out'[j] = out[j]
                   /\ pc'[J(j)] = "settled")
          /\ status[j] = "running" => Started(j)' ]_vars

\* a job has failed and been rejected, and the jobs behind it have run,
\* each once
C15_Witness ==
  \E j \in Jobs :
    /\ status[j] = "rejected" /\ out[j] = "nonfatal"
    /\ j + 2 \in Jobs /\ status[j + 1] = "resolved" /\ status[j + 2] = "running"
    /\ Invocations(j) = 1

\* ---- the job looked at in detail (ScrapeSpec) ----

\* The job has returned its payload.
Done == job.pc = "done"

\* Option Discovery yields zero Dimensions: no group, or no group with an
\* enabled option.
ZeroDimensions ==
  \A k \in 1 .. Len(job.variations) :
    \A i \in 1 .. Len(job.variations[k].options) :
      job.variations[k].options[i].disabled

\* C16: whatever the integer max_combos, a result has combosCount <=
\* max_combos, on the paths without iteration too and for max_combos = 0.
C16_CountWithinCap ==
  Done => job.result.combosCount <= job.result.max_combos

\* C17 (as stated): on every return path, limited is true whenever
\* combosCount = max_combos.
C17_LimitedAtCap ==
  (Done /\ job.result.combosCount = job.result.max_combos)
    => job.result.limited

\* C17 (amended): on the main path (at least one Dimension) limited is true
\* whenever combosCount >= max_combos; the results of the two paths without
\* iteration have one combo and limited false, also for max_combos = 1.
C17_LimitedAtCapInLoop ==
  Done =>
    IF ZeroDimensions
      THEN job.result.combosCount = 1 /\ ~job.result.limited
    ELSE job.result.combosCount >= job.result.max_combos => job.result.limited

\* the loop stopped at the cap, in time
C17_Witness ==
  /\ Done /\ ~ZeroDimensions /\ ~job.lateSeen
  /\ job.result.max_combos >= 2
  /\ job.result.combosCount = job.result.max_combos
  /\ job.result.limited

\* C18 (as stated): limited is true whenever the payload's elapsed_ms
\* exceeds max_ms, however the clock advances between the steps.
C18_LimitedWhenLate ==
  (Done /\ job.result.elapsed_ms > job.result.max_ms) => job.result.limited

\* C18 (amended): on the main path limited is true whenever one of the job's
\* deadline tests (before a primary option, before an assignment, or when
\* limited is computed) found the clock past the deadline, and then
\* elapsed_ms > max_ms; limited is true for no other reason than the cap or
\* such a test.  The results of the paths without iteration have limited
\* false whatever the time.
C18_LimitedWhenDeadlineSeen ==
  Done =>
    IF ZeroDimensions THEN ~job.result.limited
    ELSE /\ job.lateSeen => job.result.limited
         /\ job.lateSeen => job.result.elapsed_ms > job.result.max_ms
         /\ job.result.limited <=>
               (job.result.combosCount >= job.result.max_combos \/ job.lateSeen)

\* the loop was cut short by the deadline, below the cap
C18_Witness ==
  /\ Done /\ ~ZeroDimensions /\ job.lateSeen
  /\ job.result.combosCount >= 1
  /\ job.result.combosCount < job.result.max_combos
  /\ job.result.limited /\ job.result.elapsed_ms > job.result.max_ms

\* The primary options and the other groups of the job, and the full
\* Cartesian product of the other groups' options (one << name, value >>
\* per group, in the order of the groups).
Primary == talleVar(jobVars(job.variations)).options
Secondary == otherVars(jobVars(job.variations))
FullProduct ==
  { [ k \in 1 .. Len(Secondary) |-> << Secondary[k].name, f[k] >> ] :
      f \in { g \in [ 1 .. Len(Secondary) -> 1 .. MaxOpts ] :
                \A k \in 1 .. Len(Secondary) :
                  \E i \in 1 .. Len(Secondary[k].options) :
                    Secondary[k].options[i].value = g[k] } }

\* C19: a result with limited = false is complete: its combos are exactly
\* one for every pair of a primary option and an element of the full product
\* of the other groups' options, none missing and none twice.
C19_CompleteWhenNotLimited ==
  (Done /\ ~job.result.limited /\ ~ZeroDimensions) =>
    /\ { job.emitted[i] : i \in 1 .. Len(job.emitted) }
         = { [ t |-> Primary[i].value, parts |-> a ] :
               i \in 1 .. Len(Primary), a \in FullProduct }
    /\ Len(job.emitted) = Len(Primary) * Cardinality(FullProduct)
    /\ Len(job.result.combos) = Len(job.emitted)
    /\ job.result.combosCount = Len(job.emitted)

\* a complete result over two primary options and two other groups
C19_Witness ==
  /\ Done /\ ~job.result.limited /\ ~ZeroDimensions
  /\ Len(Primary) = 2 /\ Len(Secondary) = 2
  /\ Cardinality(FullProduct) = 2 /\ Len(job.emitted) = 4

\* C20: when Option Discovery yields zero Dimensions (no group, or every
\* group dropped for having no enabled option) no option is ever applied to
\* the page, the availability is read on the page as it is, and the result
\* has exactly one ComboResult and combosCount = 1.
C20_ZeroDimensionsOneCombo ==
  ZeroDimensions =>
    /\ job.applied = << >>
    /\ job.pc \in { "discover", "readOnly", "done" }
    /\ Done =>
         /\ Len(job.result.combos) = 1 /\ job.result.combosCount = 1
         /\ job.result.combos[1].talle = "(sin talle)"
         /\ job.result.combos[1].available <=> input.buyBtn = EnabledBtn
         /\ job.result.tallesCount = 0 /\ job.result.coloresCount = 0

\* the result of a page whose two groups were both dropped, in stock
C20_Witness ==
  /\ Done /\ ZeroDimensions /\ Len(job.variations) = 2
  /\ job.result.combosCount = 1 /\ job.result.combos[1].available
  /\ job.applied = << >>

\* ---- the Combination Builder (ScrapeSpec) ----

\* The job has at least one Dimension and is past the discovery:
\* buildOtherCombos has been called.
Built ==
  /\ job.pc \in { "setTalle", "setPart", "read", "done" }
  /\ ~ZeroDimensions

\* What buildOtherCombos returned to the job.
OtherCombos == buildOtherCombos(Secondary, input.max_combos)

\* C21 (as stated): the output of the Combination Builder never has more
\* than max_combos Assignments, whatever the integer max_combos, and for
\* zero secondary Dimensions it is exactly one empty Assignment.
C21_BuilderWithinCap ==
  Built =>
    /\ Len(OtherCombos) <= input.max_combos
    /\ Len(Secondary) = 0 => OtherCombos = << << >> >>

\* C21 (amended): the output never has more than max_combos Assignments
\* when max_combos >= 1 and has exactly one Assignment when max_combos <= 0;
\* for zero secondary Dimensions it is exactly one empty Assignment,
\* whatever max_combos.
C21_BuilderWithinCapOrOne ==
  Built =>
    /\ Len(OtherCombos) >= 1
    /\ Len(OtherCombos) <= (IF input.max_combos >= 1 THEN input.max_combos ELSE 1)
    /\ Len(Secondary) = 0 => OtherCombos = << << >> >>

\* the cap cut the product of two secondary Dimensions of two options
C21_Witness ==
  /\ Built /\ Len(Secondary) = 2
  /\ Cardinality(FullProduct) = 4 /\ input.max_combos = 3
  /\ Len(OtherCombos) = 3

\* C22: every Assignment of the Combination Builder has one entry per
\* secondary Dimension, in the order of the Dimensions, each entry one of
\* the options of its Dimension, also when the cap cuts the product.
C22_AssignmentsComplete ==
  Built =>
    \A i \in 1 .. Len(OtherCombos) :
      /\ Len(OtherCombos[i]) = Len(Secondary)
      /\ \A k \in 1 .. Len(OtherCombos[i]) :
           /\ OtherCombos[i][k].varName = Secondary[k].name
           /\ \E n \in 1 .. Len(Secondary[k].options) :
                OtherCombos[i][k].opt = Secondary[k].options[n]

\* C23: when the full product of the secondary Dimensions has no more than
\* max_combos elements, the Combination Builder returns exactly the full
\* product, every element once, also when it has exactly max_combos
\* elements.
C23_FullProductWithinCap ==
  (Built /\ Cardinality(FullProduct) <= input.max_combos) =>
    /\ { [ k \in 1 .. Len(OtherCombos[i]) |->
             << OtherCombos[i][k].varName, OtherCombos[i][k].opt.value >> ]
         : i \in 1 .. Len(OtherCombos) } = FullProduct
    /\ Len(OtherCombos) = Cardinality(FullProduct)

\* ---- Option Discovery (PageSpec) ----

\* The job is past the discovery.
PastDiscovery == job.pc \notin { "none", "discover" }

\* The option of value `value` of the control named `name` on the page is
\* disabled / is enabled and has a value.
DisabledOnPage(name, value) ==
  \E c \in 1 .. Len(input.controls) :
    /\ input.controls[c].name = name
    /\ \E i \in 1 .. Len(input.controls[c].options) :
         /\ input.controls[c].options[i].value = value
         /\ input.controls[c].options[i].disabled
UsableOnPage(name, value) ==
  \E c \in 1 .. Len(input.controls) :
    /\ input.controls[c].name = name
    /\ input.controls[c].kind \in { "select", "radio" }
    /\ value # 0
    /\ \E i \in 1 .. Len(input.controls[c].options) :
         /\ input.controls[c].options[i].value = value
         /\ ~input.controls[c].options[i].disabled

\* The Dimensions of the job: the groups it classifies and iterates.
Dimensions == jobVars(job.variations)

\* C24: no disabled option is ever applied to the page, as the value of the
\* PrimaryDimension or as part of an Assignment: every option applied, and
\* every option of a Dimension of the job, is an enabled option of its
\* control; a control without enabled option is no Dimension of the job.
C24_NoDisabledApplied ==
  /\ \A n \in 1 .. Len(job.applied) :
       /\ UsableOnPage(job.applied[n][1], job.applied[n][2])
       /\ ~DisabledOnPage(job.applied[n][1], job.applied[n][2])
  /\ PastDiscovery =>
       \A k \in 1 .. Len(Dimensions) :
         /\ Len(Dimensions[k].options) > 0
         /\ \A i \in 1 .. Len(Dimensions[k].options) :
              /\ ~Dimensions[k].options[i].disabled
              /\ UsableOnPage(Dimensions[k].name, Dimensions[k].options[i].value)
              /\ ~DisabledOnPage(Dimensions[k].name, Dimensions[k].options[i].value)

\* a job over three sizes, the second disabled, and a select without
\* enabled option has applied the first and the third size
C24_Witness ==
  /\ Done /\ Len(input.controls) = 2
  /\ \E c \in 1 .. 2 : \A v \in 0 .. 6 : ~UsableOnPage(input.controls[c].name, v)
  /\ \E c \in 1 .. 2 :
       /\ DisabledOnPage(input.controls[c].name, 2)
       /\ job.applied = << << input.controls[c].name, 1 >>,
                            << input.controls[c].name, 3 >> >>
  /\ Len(Dimensions) = 1

\* C25: the discovery returns one group per control that is not hidden,
\* ascending in the numeric index of the name, whatever the order of the
\* controls on the page and whatever their labels.
C25_SortedByIndex ==
  PastDiscovery =>
    /\ \A i, j \in 1 .. Len(job.variations) :
         i < j => nameIndex(job.variations[i].name)
                    < nameIndex(job.variations[j].name)
    /\ { job.variations[i].name : i \in 1 .. Len(job.variations) }
         = { input.controls[c].name :
               c \in { x \in 1 .. Len(input.controls) :
                         input.controls[x].kind # "hidden" } }

\* variation[10] stands before variation[2] on the page, and after it in
\* the variations
C25_Witness ==
  /\ PastDiscovery /\ Len(input.controls) = 2
  /\ input.controls[1].name = "variation[10]"
  /\ input.controls[2].name = "variation[2]"
  /\ Len(job.variations) = 2
  /\ job.variations[1].name = "variation[2]"
  /\ job.variations[2].name = "variation[10]"

\* ---- the Dimension Classifier (PageSpec) ----

\* The labels of a Dimension, and how many of them look like a size.
LabelsOf(v) == [ i \in 1 .. Len(v.options) |-> v.options[i].label ]
Hits(v) == Cardinality({ i \in 1 .. Len(v.options) :
                          v.options[i].label \in SizeLabels })

\* Dimension a scores higher than Dimension b (hits / options).
Outscores(a, b) == Hits(a) * Len(b.options) > Hits(b) * Len(a.options)

\* The position in Dimensions of the first Dimension that no other
\* outscores, or 1 when that Dimension's score is below 0.2.
ExpectedPrimary ==
  LET best == CHOOSE k \in 1 .. Len(Dimensions) :
                /\ \A j \in 1 .. Len(Dimensions) :
                     ~Outscores(Dimensions[j], Dimensions[k])
                /\ \A j \in 1 .. k - 1 :
                     Outscores(Dimensions[k], Dimensions[j])
  IN IF 5 * Hits(Dimensions[best]) < Len(Dimensions[best].options) THEN 1
     ELSE best

ClearCase ==
  /\ Built /\ Len(Dimensions) = 2
  /\ \E a, b \in 1 .. 2 :
       /\ LabelsOf(Dimensions[a]) = << "S", "M", "L", "XL" >>
       /\ LabelsOf(Dimensions[b]) = << "Rojo", "Azul" >>

\* C27: in the clear case the sizes are the PrimaryDimension, whether they
\* have the lower or the higher index: they are what the job iterates as
\* the primary, the colours are the one secondary, and classifying the
\* outcome again (the primary followed by the secondaries) gives the same
\* choice.
C27_SizesPrimaryAnywhere ==
  ClearCase =>
    /\ LabelsOf(talleVar(Dimensions)) = << "S", "M", "L", "XL" >>
    /\ Len(Secondary) = 1 /\ LabelsOf(Secondary[1]) = << "Rojo", "Azul" >>
    /\ Len(job.applied) >= 1 => job.applied[1][1] = talleVar(Dimensions).name
    /\ \A i \in 1 .. Len(job.result.combos) :
         job.result.combos[i].talle \in SizeLabels
    /\ tallePick(<< talleVar(Dimensions) >> \o Secondary).v = talleVar(Dimensions)

\* the sizes have the higher index and were iterated as the primary
C27_Witness ==
  /\ Done /\ ClearCase
  /\ LabelsOf(Dimensions[2]) = << "S", "M", "L", "XL" >>
  /\ ~job.result.limited /\ job.result.combosCount = 8
  /\ job.applied[1][1] = Dimensions[2].name

\* ---- the counts of the payload (PageSpec) ----

\* The options of the control named `name` that the page offers: with a
\* value and not disabled, radios of the same value and label counted once.
Offered(name) ==
  UNION { { << input.controls[c].options[i].value,
               input.controls[c].options[i].label >>
            : i \in { x \in 1 .. Len(input.controls[c].options) :
                        /\ input.controls[c].options[x].value # 0
                        /\ ~input.controls[c].options[x].disabled } }
          : c \in { x \in 1 .. Len(input.controls) :
                      /\ input.controls[x].name = name
                      /\ input.controls[x].kind \in { "select", "radio" } } }

\* The product of the numbers of offered options of the secondaries.
RECURSIVE ProductFrom(_)
ProductFrom(k) ==
  IF k > Len(Secondary) THEN 1
  ELSE Cardinality(Offered(Secondary[k].name)) * ProductFrom(k + 1)

\* C28: a result of a job with at least one Dimension that neither the cap
\* nor the deadline cut short (limited = false) has combosCount = enabled
\* primary options x product of the secondaries' enabled options,
\* tallesCount = enabled primary options, and coloresCount = enabled
\* options of the first secondary.
C28_CountsWhenUnbound ==
  (Done /\ ~ZeroDimensions /\ ~job.result.limited) =>
    /\ job.result.tallesCount = Cardinality(Offered(talleVar(Dimensions).name))
    /\ job.result.combosCount = job.result.tallesCount * ProductFrom(1)
    /\ Len(Secondary) >= 1 =>
         job.result.coloresCount = Cardinality(Offered(Secondary[1].name))

\* three sizes, one of them disabled, and two colours give 4, 2 and 2
C28_Witness ==
  /\ Done /\ ~ZeroDimensions /\ ~job.result.limited
  /\ Len(input.controls) = 2
  /\ \E c \in 1 .. 2 : /\ Len(input.controls[c].options) = 3
                        /\ DisabledOnPage(input.controls[c].name, 2)
  /\ \E c \in 1 .. 2 : /\ Len(input.controls[c].options) = 2
                        /\ input.controls[c].options[1].label = "Rojo"
  /\ job.result.combosCount = 4
  /\ job.result.tallesCount = 2 /\ job.result.coloresCount = 2

\* C29: every result of a job without secondary Dimension (a primary only,
\* or no Dimension at all) has coloresCount = 0, and the tallesCount of
\* every result is the number of options of the PrimaryDimension, 0 when
\* there is none.
C29_CountsWithoutSecondary ==
  Done =>
    IF ZeroDimensions
      THEN job.result.tallesCount = 0 /\ job.result.coloresCount = 0
    ELSE /\ job.result.tallesCount = Cardinality(Offered(talleVar(Dimensions).name))
         /\ Len(Secondary) = 0 => job.result.coloresCount = 0

\* the result of a job whose only Dimension has four sizes
C29_Witness ==
  /\ Done /\ ~ZeroDimensions /\ Len(Secondary) = 0
  /\ job.result.tallesCount = 4 /\ job.result.coloresCount = 0
  /\ job.result.combosCount >= 1

\* ---- reads and applications (ScrapeSpec) ----

\* The last application to the PrimaryDimension among the first n.
RECURSIVE LastPrimary(_)
LastPrimary(n) ==
  IF n = 0 THEN 0
  ELSE IF job.applied[n][1] = talleVar(Dimensions).name
    THEN job.applied[n][2]
  ELSE LastPrimary(n - 1)

\* C30: every ComboResult has its own availability read, made when the
\* last options applied to the page were the pairs of its Assignment, in
\* order, and the primary option applied last was its own; its available is
\* what that read gave.
C30_ReadAfterOwnAssignment ==
  /\ Len(job.readAt) = Len(job.emitted) /\ Len(job.combos) = Len(job.emitted)
  /\ \A i \in 1 .. Len(job.emitted) :
       LET n == job.readAt[i]
           parts == job.emitted[i].parts
       IN /\ n <= Len(job.applied) /\ Len(parts) <= n
          /\ SubSeq(job.applied, n - Len(parts) + 1, n) = parts
          /\ job.emitted[i].t # 0 =>
               /\ LastPrimary(n) = job.emitted[i].t
               /\ job.applied[n - Len(parts)][1] = talleVar(Dimensions).name
                    \/ (i > 1 /\ job.readAt[i - 1] = n - Len(parts))
          /\ i > 1 => job.readAt[i - 1] < n
          /\ job.combos[i].available <=> readAvailable(input.buyBtn) = "true"

\* two ComboResults of the same primary option, each read after the two
\* pairs of its Assignment
C30_Witness ==
  /\ Len(job.emitted) >= 2
  /\ job.emitted[1].t = job.emitted[2].t
  /\ Len(job.emitted[2].parts) = 2
  /\ job.readAt[2] = job.readAt[1] + 2
  /\ job.combos[2].available

\* ------------------------------------------------------------------------
\* Session restarts: job count, order of the steps, exclusion, errors
\* ------------------------------------------------------------------------

RestartPcs == { "close", "sleep", "launch" }
Restarting(t) == pc[t] \in RestartPcs
Returned == { j \in Jobs : out[j] = "ok" }

\* C34: jobsDone is the number of jobs that returned a result, in every
\* state: a step adds one for each job that returns a result in it and never
\* takes anything away, and a step of a restart (close settled, backoff over,
\* relaunch settled) or of a failing job adds nothing unless a job returns a
\* result in it.
C34_JobsDoneCountsResults ==
  [][ /\ jobsDone' >= jobsDone
      /\ jobsDone' - jobsDone
           = Cardinality({ j \in Jobs : out[j] # "ok" /\ out'[j] = "ok" })
      /\ jobsDone' = Cardinality({ j \in Jobs : out'[j] = "ok" })
      /\ Returned \subseteq { j \in Jobs : out'[j] = "ok" } ]_vars

\* Three results counted, with a preventive restart and a job's own restart
\* finished and a rejected job in between.
C34_Witness ==
  /\ jobsDone = 3
  /\ prevRestarts >= 1
  /\ \E j \in Jobs : status[j] = "rejected" /\ trail[j].finished = 1
  /\ browser # 0

\* C35 (as stated): every accepted job is settled in the end.
C35_EveryJobSettles ==
  \A j \in Jobs : Accepted(j) ~> Settled(j)

\* C35 (amended): every accepted job is settled in the end unless process
\* termination has been scheduled, and the worker is stopped with jobs in
\* the queue only once process termination has been scheduled.
C35_EveryJobSettlesUntilExit ==
  /\ \A j \in Jobs : Accepted(j) ~> (Settled(j) \/ exitScheduled)
  /\ [](Len(queue) > 0 /\ ~workerRunning => exitScheduled)

\* The relaunch of a preventive restart has failed: the worker has stopped
\* with a job in the queue, and process termination is scheduled.
C35_Witness ==
  /\ prevRestarts >= 1
  /\ Len(queue) > 0 /\ ~workerRunning
  /\ ActiveWorkers = {}
  /\ exitScheduled /\ ~exited

\* The relaunch awaited by activation t settled in this step, and how.
RelaunchSettled(t) == pc[t] = "launch" /\ wait[t] \notin inflight'
RelaunchFailed(t) == RelaunchSettled(t) /\ wait[t] \notin procs'

\* C36: a restart goes close, clear, backoff, relaunch.  It begins with the
\* close of the browser when there is one; whatever the close did, the
\* reference is cleared and the backoff sleep follows; the relaunch follows
\* the sleep; when the restart returns normally the reference holds a
\* running browser; when the relaunch fails the reference stays cleared and
\* the failure reaches the caller: the worker's loop is left, the job is
\* rejected with it.
C36_RestartOrder ==
  [][ \A t \in Threads :
        /\ ~Restarting(t) /\ Restarting(t)'
             => \/ pc'[t] = "close" /\ browser' # 0
                \/ pc'[t] = "sleep" /\ browser' = 0
        /\ pc[t] = "close" /\ pc'[t] # "close"
             => /\ pc'[t] = "sleep" /\ browser' = 0
                /\ inflight' = inflight
        /\ pc[t] = "sleep" /\ pc'[t] # "sleep"
             => \/ pc'[t] = "launch" /\ wait'[t] \in inflight' /\ browser' = 0
                \/ browser' # 0 /\ browser' \in procs'
        /\ RelaunchSettled(t) /\ ~RelaunchFailed(t)
             => browser' # 0 /\ browser' \in procs'
        /\ RelaunchFailed(t)
             => /\ browser' = 0
                /\ exitScheduled'
                /\ IF IsWorker(t) THEN pc'[t] = "none" /\ ~workerRunning'
                   ELSE out'[t[2]] = "launch" ]_vars

\* A job's restart has returned normally although its close failed and left
\* the old process running.
C36_Witness ==
  \E j \in Jobs :
    /\ trail[j].finished = 1 /\ out[j] = "fatal"
    /\ browser # 0 /\ browser \in procs
    /\ Cardinality(procs) = 2

\* Page operations of job j are pending or about to be issued.
OnPage(j) ==
  pc[J(j)] \in { "newContext", "newPage", "drive", "closePage",
                 "closeContext" }

\* C37: while a restart is in progress no job has a page operation pending.
\* The restart is the only one, and it runs in the single worker: in the
\* worker itself with no job started and not settled, or in the catch of the
\* job that the worker is awaiting.
C37_NoJobDuringRestart ==
  \A t \in Threads :
    Restarting(t) =>
      /\ \A j \in Jobs : ~OnPage(j)
      /\ \A u \in Threads : Restarting(u) => u = t
      /\ Cardinality(ActiveWorkers) = 1
      /\ IF IsWorker(t)
           THEN /\ ActiveWorkers = { t[2] }
                /\ \A j \in Jobs : status[j] # "running"
         ELSE /\ WorkerOf(Cur, t[2]) # {}
              /\ \A j \in Jobs : status[j] = "running" => j = t[2]

\* A preventive restart is in progress with a job waiting in the queue.
C37_Witness ==
  \E w \in Jobs :
    /\ Restarting(W(w))
    /\ Len(queue) > 0
    /\ jobsDone = RESTART_EVERY_JOBS

\* C38: a rejected job that failed while driving is rejected with the
\* message of that failure.
C38_RejectionCarriesDrivingError ==
  \A j \in Jobs :
    status[j] = "rejected" /\ trail[j].err # "none" => out[j] = trail[j].err

\* ------------------------------------------------------------------------
\* Deadline tests at the heads of the loops
\* ------------------------------------------------------------------------

\* Applications of a primary option so far, and Assignments begun so far.
PrimaryApplied ==
  Cardinality({ i \in 1 .. Len(job.applied) :
                  job.applied[i][1] = talleVar(Dimensions).name })
AssignmentsBegun ==
  IF Len(Secondary) = 0 THEN 0
  ELSE Len(job.emitted) + (IF job.pc \in { "setPart", "read" } THEN 1 ELSE 0)

\* C31: each application of a primary option and each Assignment begun was
\* preceded by its own deadline test, which found the deadline not exceeded;
\* and once a test at the head of a loop has found the deadline exceeded,
\* the job has returned with exactly what had been applied, read and
\* emitted when that test was made (the clock never goes back).
C31_DeadlineCheckedThenNothingMore ==
  Built =>
    /\ job.checks = PrimaryApplied + AssignmentsBegun
    /\ job.lateAt.found =>
         /\ Done /\ job.result.limited
         /\ Len(job.applied) = job.lateAt.applied
         /\ Len(job.readAt) = job.lateAt.reads
         /\ Len(job.emitted) = job.lateAt.reads
         /\ job.result.combosCount = job.lateAt.reads

\* The test before the second Assignment found the deadline exceeded: the
\* job returned one combination of a page that offers four.
C31_Witness ==
  /\ Done /\ job.lateAt.found
  /\ job.lateAt.reads = 1 /\ job.lateAt.applied = 2
  /\ Len(Secondary) = 1
  /\ Len(Primary) = 2 /\ Len(Secondary[1].options) = 2
  /\ input.max_combos = MaxCombos
  /\ job.checks = 2

\* ------------------------------------------------------------------------
\* Availability
\* ------------------------------------------------------------------------

\* The class attributes and the texts of ButtonSpec that say "no stock".
NoStockClasses == { NoStockClass }
OutOfStockTexts == { SinStock, Agotado }

\* The purchase control says "unavailable": it is absent, disabled, of the
\* no-stock class or showing an out-of-stock phrase.
SaysUnavailable(b) ==
  \/ b.tag = "none"
  \/ b.disabled
  \/ b.cls \in NoStockClasses
  \/ b.text \in OutOfStockTexts

\* C32: every ComboResult is unavailable when the purchase control is
\* absent, disabled, of the no-stock class or showing an out-of-stock
\* phrase, and available otherwise; its available is a boolean, false for
\* an absent control.
C32_AvailabilityFromControl ==
  \A i \in 1 .. Len(job.combos) :
    /\ job.combos[i].available \in BOOLEAN
    /\ job.combos[i].available <=> ~SaysUnavailable(input.buyBtn)
    /\ input.buyBtn.tag = "none" => job.combos[i].available = FALSE

\* Four ComboResults, all unavailable, of a page whose purchase control is an
\* enabled element that is neither input nor button, without class of
\* interest, showing SIN STOCK.
C32_Witness ==
  /\ Done /\ Len(job.result.combos) = 4
  /\ input.buyBtn.tag = "other"
  /\ input.buyBtn.cls \notin NoStockClasses
  /\ input.buyBtn.text = SinStock
  /\ \A i \in 1 .. 4 : ~job.result.combos[i].available

\* ------------------------------------------------------------------------
\* Fallback colour label
\* ------------------------------------------------------------------------

TitleDone == job.pc \notin { "none", "title" }
LilaRosa ==
  << "l", "i", "l", "a", " ", "r", "o", "s", "a" >>
LilaYRosa ==
  << "L", "I", "L", "A", " ", "Y", " ", "R", "O", "S", "A" >>

\* A token of 4 to 6 letters and digits with fewer than two vowels.
OpaqueCode(tok) ==
  /\ Len(tok) \in 4 .. 6
  /\ \A i \in 1 .. Len(tok) :
       lower(tok[i]) \in Digits \/ \E k \in 1 .. Len(Lower) : Lower[k] = lower(tok[i])
  /\ \A i, j, k \in 1 .. Len(tok) :
       lower(tok[i]) \in Vowels /\ lower(tok[j]) \in Vowels => i = j

\* The label the rule gives for a URL: the slug after /productos/ is split
\* on hyphens; a leading art token and a following number are skipped; with
\* cutAtNumber, when neither was there, everything up to the first number of
\* the slug is skipped; a trailing opaque code is discarded; the rest is
\* joined with single blanks.
RuleLabel(url, cutAtNumber) ==
  LET k == indexOf(url, UrlHead)
      tail == IF k = -1 THEN << >>
              ELSE SubSeq(url, k + Len(UrlHead) + 1, Len(url) - 1)
      toks == nonEmpty(split(tail, << "-" >>))
      art == IF Len(toks) > 0 /\ toLowerCase(toks[1]) \in { << "a", "r", "t" >>,
                                                        << "a", "r", "t", "." >> }
               THEN 1 ELSE 0
      num == IF Len(toks) > art /\ isNumber(toks[art + 1]) THEN 1 ELSE 0
      cut == IF cutAtNumber /\ art + num = 0
                /\ \E n \in 1 .. Len(toks) : isNumber(toks[n])
               THEN CHOOSE n \in 1 .. Len(toks) :
                      /\ isNumber(toks[n])
                      /\ \A m \in 1 .. n - 1 : ~isNumber(toks[m])
             ELSE art + num
      last == IF Len(toks) > cut /\ OpaqueCode(toks[Len(toks)])
                THEN Len(toks) - 1 ELSE Len(toks)
  IN cleanColorText(join(SubSeq(toks, cut + 1, last), << " " >>))

NoSecondary == ZeroDimensions \/ Len(Secondary) = 0

\* C40: the fallback label is the label of the title when that is not
\* empty and the label of the URL otherwise; a ComboResult is labelled with
\* it (or with "(sin color)" when it is empty) exactly when the job has no
\* secondary Dimension, and with the labels of its Assignment otherwise.
C40_TitleThenUrlWithoutSecondary ==
  TitleDone =>
    /\ colorFromTitleSmart(input.title) # << >>
         => job.fallbackColor = colorFromTitleSmart(input.title)
    /\ colorFromTitleSmart(input.title) = << >>
         => job.fallbackColor = colorFromUrlSmart(input.url)
    /\ input.title = TitleDash => job.fallbackColor = LilaYRosa
    /\ input.title = TitleArt => job.fallbackColor = << "M" >> \o Tail(Malbec)
    /\ input.title = TitlePlain /\ input.url = UrlOf(SlugMalbec)
         => job.fallbackColor = Malbec
    /\ \A i \in 1 .. Len(job.combos) :
         IF NoSecondary
           THEN /\ job.combos[i].color.labels = << >>
                /\ job.combos[i].color.text =
                     IF job.fallbackColor # << >> THEN job.fallbackColor
                     ELSE SinColor
         ELSE /\ job.combos[i].color.text = << >>
              /\ Len(job.combos[i].color.labels) = Len(Secondary)
              /\ \A k \in 1 .. Len(Secondary) :
                   \E o \in 1 .. Len(Secondary[k].options) :
                     Secondary[k].options[o].label = job.combos[i].color.labels[k]

\* A page with title and slug, both giving a label: without colour control
\* the sizes are labelled with the title's label, and with a colour control
\* (in another run) no ComboResult carries it.
C40_Witness ==
  /\ Done /\ input.title = TitleDash /\ input.url = UrlOf(SlugMalbec)
  /\ job.fallbackColor = LilaYRosa
  /\ Len(job.result.combos) = 2
  /\ \A i \in 1 .. 2 : job.result.combos[i].color.text = LilaYRosa

\* ------------------------------------------------------------------------
\* Several selects of one name
\* ------------------------------------------------------------------------

\* The selects of the page that carry the name, and the score of one: all
\* the selects of these pages are in the form with the submit control.
Candidates(name) ==
  { i \in 1 .. Len(input.controls) :
      input.controls[i].kind = "select" /\ input.controls[i].name = name }
Score(i) == 1000 + Len(input.controls[i].options)
BestCandidate(name) ==
  CHOOSE i \in Candidates(name) :
    \A m \in Candidates(name) :
      Score(i) > Score(m) \/ (Score(i) = Score(m) /\ i <= m)

\* C39: the options of a Dimension are the usable options of the
\* highest-scoring select of its name, the first of them on a tie, and
\* every value of the Dimension is applied to that select.
C39_BestCandidateOnly ==
  PastDiscovery =>
    /\ \A k \in 1 .. Len(job.variations) :
         Candidates(job.variations[k].name) # {} =>
           job.variations[k].options
             = groupOf(input.controls[BestCandidate(job.variations[k].name)]).options
    /\ \A k \in 1 .. Len(job.applied) :
         job.targets[k] = BestCandidate(job.applied[k][1])

====
